---- MODULE Spec2Model ----
(***************************************************************************)
(* A model of the FANZA scraper's publish client (app/core/wp_rest.py),    *)
(* its dedup ledger (app/core/csv_dedupe.py), its orchestrator            *)
(* (app/core/pipeline.py run_pipeline), its record filters                 *)
(* (app/core/filters.py), its image mirror (app/core/image_mirror.py) and  *)
(* the image fields its providers build (app/providers).                   *)
(*                                                                         *)
(* Strings the code trims or compares (external ids) are sequences of      *)
(* one-character strings, so that str.strip() is computed, not assumed.    *)
(* Times are in tenths of a second.                                        *)
(***************************************************************************)
EXTENDS Integers, Sequences, FiniteSets, TLC

VARIABLES
    req,        \* WPClient._req in progress: loop index, requests sent, responses, sleeps
    posts,      \* the remote site's posts; a post's id is its index
    lastCall,   \* the create_or_update_post call that returned last (lookup: the
                \* answers its lookup request got)
    prevCall,   \* the call before it, when it created a post with every request succeeding
    disk,         \* the CSV files on disk: path -> rows, a row a sequence of cells
    ledLog,     \* the append_ledger calls made so far: path, record, raised
    cfg,        \* the command line of run_pipeline (args)
    src,        \* the items the source API holds
    run,        \* the run_pipeline call in progress: its locals
    item,       \* the item processed last: its verdict and the stages that ran for it
    hist,       \* the runs that ended: outfile, what they kept, the outfile's cid cells
    flt,        \* one use of apply_filters: the rows, the parsed filter options, the result
    mir,        \* the image mirror: the cache files, the uploads made, the last call
    img,        \* one item's image URLs: as the API sent them, the row made of them
    trl,        \* one item's trailer fields: as the API sent them, the row made of them
    gal,        \* one call of _extract_sample_images: the strings of the item, the URLs returned
    tm,         \* the remote's terms per taxonomy and the last two ensure_tags / ensure_categories calls
    cnt,        \* the content options of a command, its content builder and the body of a record
    skp,        \* a CSV header and the ids the two skip-set builders read from its file
    ftc,        \* the fetch loop of one run: position, counts, the page at hand, the last fetch or sleep
    aff,        \* a base URL, the affiliate configuration, and make_aff_url applied once and twice
    prn         \* ProcessRunner: its fields, the child, the pipe and the reader thread

vars == <<req, posts, lastCall, prevCall, disk, ledLog, cfg, src, run, item, hist, flt, mir, img, trl, gal, tm, cnt, skp, ftc, aff, prn>>
wpVars == <<req, posts, lastCall, prevCall>>
fileVars == <<disk, ledLog>>
pipeVars == <<cfg, src, run, item, hist>>
libVars == <<flt, mir, img, trl, gal, tm, cnt, skp, ftc, aff, prn>>

(***************************************************************************)
(* Bounds of the model.                                                    *)
(***************************************************************************)
MaxPosts == 3
MaxAppends == 3
MaxItems == 2
MaxRuns == 3
MaxPatterns == 2
MaxMirrors == 3

(***************************************************************************)
(* Strings.                                                                *)
(***************************************************************************)
RECURSIVE LStrip(_)
LStrip(s) == IF s # <<>> /\ Head(s) = " " THEN LStrip(Tail(s)) ELSE s

RECURSIVE RStrip(_)
RStrip(s) ==
    IF s # <<>> /\ s[Len(s)] = " " THEN RStrip(SubSeq(s, 1, Len(s) - 1)) ELSE s

\* str.strip()
Strip(s) == RStrip(LStrip(s))

\* external ids a caller may pass: none, two product codes, one with a leading blank
ExtIds == {<<>>, <<"X">>, <<"Y">>, <<" ", "X">>}
Titles == {"T1", "T2"}

(***************************************************************************)
(* WPClient._req: up to five attempts, retry on a transient status.        *)
(***************************************************************************)
Transient == {429, 500, 502, 503, 504}
MaxAttempts == 5
SleepUnit == 15

\* the statuses the remote answers with
Statuses == {200, 400} \cup Transient

ReqIdle ==
    [i |-> 0, sent |-> 0, statuses |-> <<>>, waits |-> <<>>, outcome |-> "idle"]
ReqStart == [ReqIdle EXCEPT !.outcome = "running"]

\* a mutant: every error status is retried
ReqAttempt_RetryAll(r, status) ==
    LET r1 == [r EXCEPT !.sent = @ + 1, !.statuses = Append(@, status)] IN
    IF status >= 400
    THEN LET r2 == [r1 EXCEPT !.waits = Append(@, SleepUnit * (r.i + 1)),
                              !.i = r.i + 1]
         IN IF r2.i >= MaxAttempts THEN [r2 EXCEPT !.outcome = "none"] ELSE r2
    ELSE [r1 EXCEPT !.outcome = "ok"]

\* one pass of the loop body: the request, then sleep-and-continue, raise or return.
\* After the last pass the loop ends and the function returns None ("none").
ReqAttempt(r, status) ==
    LET r1 == [r EXCEPT !.sent = @ + 1, !.statuses = Append(@, status)] IN
    IF status \in Transient
    THEN LET r2 == [r1 EXCEPT !.waits = Append(@, SleepUnit * (r.i + 1)),
                              !.i = r.i + 1]
         IN IF r2.i >= MaxAttempts THEN [r2 EXCEPT !.outcome = "none"] ELSE r2
    ELSE IF status >= 400
         THEN [r1 EXCEPT !.outcome = "raise"]
         ELSE [r1 EXCEPT !.outcome = "ok"]

\* a whole _req call against a remote that answers script[k] to the k-th request
RECURSIVE ReqLoop(_, _)
ReqLoop(r, script) ==
    IF r.outcome # "running"
    THEN r
    ELSE ReqLoop(ReqAttempt(r, script[r.sent + 1]), script)

ReqRun(script) == ReqLoop(ReqStart, script)

\* _req as a state machine, one response at a time
ReqBegin ==
    /\ req.outcome # "running"
    /\ req' = ReqStart
    /\ UNCHANGED <<posts, lastCall, prevCall, fileVars, pipeVars, libVars>>

ReqRespond ==
    /\ req.outcome = "running"
    /\ \E status \in Statuses : req' = ReqAttempt(req, status)
    /\ UNCHANGED <<posts, lastCall, prevCall, fileVars, pipeVars, libVars>>

(***************************************************************************)
(* The remote site and WPClient.create_or_update_post.                     *)
(***************************************************************************)
PerPage == 10

\* the scripted answers of the remote to one _req call: n transient answers, then f
Scripts ==
    {[k \in 1..MaxAttempts |-> IF k <= n THEN 503 ELSE f] :
        n \in {0, 1, MaxAttempts}, f \in {200, 400}}

\* GET /posts?meta_key=external_id&meta_value=eid&per_page=10: the ids of the posts
\* whose external_id meta is eid, newest first, one page
RECURSIVE MatchesFrom(_, _, _)
MatchesFrom(ps, eid, k) ==
    IF k = 0
    THEN <<>>
    ELSE IF ps[k].eid = eid
         THEN <<k>> \o MatchesFrom(ps, eid, k - 1)
         ELSE MatchesFrom(ps, eid, k - 1)

ServerQuery(ps, eid) ==
    LET all == MatchesFrom(ps, eid, Len(ps))
    IN SubSeq(all, 1, IF Len(all) < PerPage THEN Len(all) ELSE PerPage)

\* the first post of the page whose meta equals eid exactly, 0 for None
RECURSIVE FirstExact(_, _, _)
FirstExact(ps, page, eid) ==
    IF page = <<>>
    THEN 0
    ELSE IF ps[Head(page)].eid = eid
         THEN Head(page)
         ELSE FirstExact(ps, Tail(page), eid)

\* a mutant: the lookup never finds a post
FindPostId_NeverFinds(ps, external_id, script) ==
    LET eid == Strip(external_id) IN
    IF eid = <<>>
    THEN [raised |-> FALSE, pid |-> 0, statuses |-> <<>>]
    ELSE LET r == ReqRun(script) IN
         [raised |-> r.outcome = "raise", pid |-> 0, statuses |-> r.statuses]

\* WPClient.find_post_id_by_external: no lookup for an empty id; a _req that
\* returned None (not a list) gives None
FindPostId(ps, external_id, script) ==
    LET eid == Strip(external_id) IN
    IF eid = <<>>
    THEN [raised |-> FALSE, pid |-> 0, statuses |-> <<>>]
    ELSE LET r == ReqRun(script) IN
         CASE r.outcome = "raise" ->
                [raised |-> TRUE, pid |-> 0, statuses |-> r.statuses]
           [] r.outcome = "none" ->
                [raised |-> FALSE, pid |-> 0, statuses |-> r.statuses]
           [] OTHER ->
                [raised |-> FALSE,
                 pid |-> FirstExact(ps, ServerQuery(ps, eid), eid),
                 statuses |-> r.statuses]

\* WPClient.create_or_update_post against the site ps: the lookup, then one write.
\* The remote applies a write it answers with 200; res["id"] on a None result raises.
CreateOrUpdatePost(ps, external_id, title, fscript, wscript) ==
    LET f == FindPostId(ps, external_id, fscript)
        w == ReqRun(wscript)
        post == [eid |-> external_id, title |-> title]
        clean == f.statuses \in {<<>>, <<200>>} /\ w.statuses = <<200>>
    IN IF f.raised
       THEN [posts |-> ps, raised |-> TRUE, id |-> 0, found |-> 0,
             clean |-> FALSE, wrote |-> FALSE, lookup |-> f.statuses]
       ELSE IF w.outcome # "ok"
            THEN [posts |-> ps, raised |-> TRUE, id |-> 0, found |-> f.pid,
                  clean |-> FALSE, wrote |-> FALSE, lookup |-> f.statuses]
            ELSE IF f.pid # 0
                 THEN [posts |-> [ps EXCEPT ![f.pid] = post], raised |-> FALSE,
                       id |-> f.pid, found |-> f.pid, clean |-> clean,
                       wrote |-> TRUE, lookup |-> f.statuses]
                 ELSE [posts |-> Append(ps, post), raised |-> FALSE,
                       id |-> Len(ps) + 1, found |-> 0, clean |-> clean,
                       wrote |-> TRUE, lookup |-> f.statuses]

NoCall == [eid |-> <<>>, title |-> "", lookup |-> <<>>, clean |-> FALSE,
           raised |-> FALSE, id |-> 0, created |-> FALSE]
NoPrev == [eid |-> <<>>, id |-> 0]

\* one create_or_update_post call, from its first request to its return
Call ==
    /\ Len(posts) < MaxPosts
    /\ \E e \in ExtIds, t \in Titles, fscript \in Scripts, wscript \in Scripts :
       \E r \in {CreateOrUpdatePost(posts, e, t, fscript, wscript)} :
          /\ posts' = r.posts
          /\ lastCall' = [eid |-> e, title |-> t, lookup |-> r.lookup,
                          clean |-> r.clean,
                          raised |-> r.raised, id |-> r.id,
                          created |-> r.wrote /\ r.found = 0]
          /\ prevCall' = IF lastCall.clean /\ lastCall.created
                         THEN [eid |-> lastCall.eid, id |-> lastCall.id]
                         ELSE NoPrev
    /\ UNCHANGED <<req, fileVars, pipeVars, libVars>>

(***************************************************************************)
(* CSV files and the dedup ledger (csv_dedupe.py).  Every cell is a        *)
(* sequence of characters, a header cell a column name.  The working       *)
(* directory (dir "") and the directory "out" exist.                       *)
(***************************************************************************)
NoFiles == <<>>
Path(d, n, x) == [dir |-> d, name |-> n, ext |-> x]

\* os.path.dirname(path)
Dirname(p) == p.dir

LedgerFields ==
    <<"cid", "title", "date", "maker", "actress", "URL", "image_large",
      "sample_images", "posted_at">>

\* csv.DictWriter(..., extrasaction="ignore").writerow: one cell per field of the
\* order, empty for a missing key; keys outside the order are dropped
RowOf(rec, fields) ==
    [k \in 1..Len(fields) |->
        IF fields[k] \in DOMAIN rec THEN rec[fields[k]] ELSE <<>>]

\* append_ledger(path, row_dict): os.makedirs(dirname) raises FileNotFoundError
\* for a path without a directory part; a new file gets the header first
AppendLedger(files, p, rec) ==
    IF Dirname(p) = ""
    THEN [disk |-> files, raised |-> TRUE]
    ELSE LET is_new == p \notin DOMAIN files
             old == IF is_new THEN <<LedgerFields>> ELSE files[p]
             new == Append(old, RowOf(rec, LedgerFields))
         IN [disk |-> [q \in DOMAIN files \cup {p} |->
                        IF q = p THEN new ELSE files[q]],
             raised |-> FALSE]

\* str.lower() of the column names that occur
Lower(c) ==
    CASE c \in {"cid", "CID", "Cid"} -> "cid"
      [] c \in {"content_id", "Content_ID"} -> "content_id"
      [] c \in {"ContentID", "contentId"} -> "contentid"
      [] c = "URL" -> "url"
      [] OTHER -> c

\* "content_id" in c.lower()
HasContentId(c) == Lower(c) = "content_id"

InHeader(header, c) == \E k \in 1..Len(header) : header[k] = c

\* next((c for c in fieldnames if c.lower() == "cid" or "content_id" in c.lower()),
\* None), "" for None
RECURSIVE FirstAltCol(_)
FirstAltCol(header) ==
    IF header = <<>>
    THEN ""
    ELSE IF Lower(Head(header)) = "cid" \/ HasContentId(Head(header))
         THEN Head(header)
         ELSE FirstAltCol(Tail(header))

\* load_skip_cids: the column to read
SkipKey(header, colname) ==
    IF InHeader(header, colname)
    THEN colname
    ELSE LET alt == FirstAltCol(header)
         IN IF alt # "" THEN alt ELSE colname

\* csv.DictReader row.get(key): the cell under the last column named key
CellOf(header, row, key) ==
    LET ks == {k \in 1..Len(header) : header[k] = key /\ k <= Len(row)}
    IN IF ks = {} THEN <<>> ELSE row[CHOOSE k \in ks : \A j \in ks : j <= k]

\* the non-empty stripped cells of column key in the data rows
IdsOfColumn(rows, key) ==
    {Strip(CellOf(rows[1], rows[k], key)) : k \in 2..Len(rows)} \ {<<>>}

\* load_skip_cids(patterns, colname) over explicit paths; a file that does not
\* exist is left out, an empty file makes DictReader.fieldnames None (skipped)
LoadSkipCids(files, paths, colname) ==
    UNION {IF files[p] = <<>>
           THEN {}
           ELSE IdsOfColumn(files[p], SkipKey(files[p][1], colname)) :
           p \in paths \cap DOMAIN files}

LedgerPaths ==
    {Path("out", "ledger", "csv"), Path("", "ledger", "csv"),
     Path("out", "done", "csv")}

Now == <<"t">>

\* the records handed to append_ledger
LedgerRecs ==
    {[cid |-> c, title |-> <<"T">>, genres |-> <<"g">>, posted_at |-> Now] :
        c \in ExtIds}
    \cup {[cid |-> c, title |-> <<"T">>, exported_at |-> Now] : c \in ExtIds}

\* one append_ledger call
Append_ledger ==
    /\ Len(ledLog) < MaxAppends
    /\ \E p \in LedgerPaths, rec \in LedgerRecs :
       \E r \in {AppendLedger(disk, p, rec)} :
          /\ disk' = r.disk
          /\ ledLog' = Append(ledLog, [path |-> p, rec |-> rec, raised |-> r.raised])
    /\ UNCHANGED <<wpVars, pipeVars, libVars>>

(***************************************************************************)
(* load_skip_cids_in_dir and the main export of run_pipeline.              *)
(***************************************************************************)
DirCandidates == <<"cid", "CID", "content_id", "ContentID", "contentId">>

\* the first candidate that is a column of the header, "" for None
RECURSIVE FirstCandidate(_, _)
FirstCandidate(cands, header) ==
    IF cands = <<>>
    THEN ""
    ELSE IF InHeader(header, Head(cands))
         THEN Head(cands)
         ELSE FirstCandidate(Tail(cands), header)

\* lowers = {c.lower(): c for c in fns}; lowers["cid"], "" when there is none
LowersCid(header) ==
    LET ks == {k \in 1..Len(header) : Lower(header[k]) = "cid"}
    IN IF ks = {} THEN "" ELSE header[CHOOSE k \in ks : \A j \in ks : j <= k]

\* load_skip_cids_in_dir: the column to read, "" when the file is skipped
DirKey(header) ==
    LET cand == FirstCandidate(DirCandidates, header)
    IN IF cand # "" THEN cand ELSE LowersCid(header)

\* a mutant: the scan reads only files that were appended to as a ledger
LoadSkipCidsInDir_LedgerOnly(files, dir) ==
    UNION {IF files[p] = <<>> \/ files[p][1] # LedgerFields
           THEN {}
           ELSE IdsOfColumn(files[p], "cid") :
           p \in {q \in DOMAIN files : q.dir = dir /\ q.ext = "csv"}}

\* load_skip_cids_in_dir(out_dir, "*.csv"): the files of the directory whose
\* name ends in .csv; a file with no header or no id column is skipped
LoadSkipCidsInDir(files, dir) ==
    UNION {IF files[p] = <<>> \/ files[p][1] = <<>> \/ DirKey(files[p][1]) = ""
           THEN {}
           ELSE IdsOfColumn(files[p], DirKey(files[p][1])) :
           p \in {q \in DOMAIN files : q.dir = dir /\ q.ext = "csv"}}

BaseFields ==
    <<"cid", "title", "URL", "date", "maker", "actress", "genres",
      "sample_images", "image_large", "trailer_url", "trailer_youtube",
      "trailer_poster", "trailer_embed", "content", "aspect_ratio">>

\* the keys of all rows
AllKeys(rows) == UNION {DOMAIN rows[k] : k \in 1..Len(rows)}

\* the columns of the export: the base fields that some row has, in base order
\* (the rows of the model carry base fields only)
OutFieldnames(rows) ==
    LET Present(c) == c \in AllKeys(rows) IN SelectSeq(BaseFields, Present)

\* open(outfile, "w"), writeheader, writerows: the file is replaced
WriteOutfile(files, p, rows) ==
    LET fields == OutFieldnames(rows)
        new == <<fields>> \o [k \in 1..Len(rows) |-> RowOf(rows[k], fields)]
    IN [q \in DOMAIN files \cup {p} |-> IF q = p THEN new ELSE files[q]]

(***************************************************************************)
(* run_pipeline.                                                           *)
(***************************************************************************)
NoPath == Path("", "", "")
OutPaths == {Path("out", "items", "csv"), Path("out", "items", "txt")}

\* a raw item of the source: its content_id, and whether its record passes
\* _filter_and_enhance and apply_filters under the command's filter options
RawItems == [cid : {<<>>, <<"X">>, <<" ", "X">>}, pass : BOOLEAN]

RECURSIVE SeqsUpTo(_, _)
SeqsUpTo(S, n) ==
    IF n = 0
    THEN {<<>>}
    ELSE LET shorter == SeqsUpTo(S, n - 1)
         IN shorter \cup {Append(q, x) : q \in {t \in shorter : Len(t) = n - 1}, x \in S}

Sources == SeqsUpTo(RawItems, MaxItems)

\* the commands: CSV-only with every combination of image mirroring, outputs
\* scan, ledger and outfile name; WordPress posting with the outputs scan on;
\* one page of MaxItems items, or pages of one item with max = 1; no template
Paging == {[hits |-> MaxItems, max |-> MaxItems], [hits |-> 1, max |-> 1]}

BaseCfgs ==
    {[wp |-> FALSE, mirror |-> m, autoSkip |-> a, ledger |-> l, outfile |-> o,
      hits |-> pg.hits, max |-> pg.max, targetNew |-> 0, noUpdate |-> FALSE,
      template |-> "none"] :
        m \in BOOLEAN, a \in BOOLEAN,
        l \in {NoPath, Path("out", "ledger", "csv"), Path("", "ledger", "csv")},
        o \in OutPaths, pg \in Paging}
    \cup
    {[wp |-> TRUE, mirror |-> m, autoSkip |-> TRUE, ledger |-> l,
      outfile |-> Path("out", "items", "csv"),
      hits |-> pg.hits, max |-> pg.max, targetNew |-> 0, noUpdate |-> FALSE,
      template |-> "none"] :
        m \in BOOLEAN, l \in {NoPath, Path("out", "ledger", "csv")},
        pg \in Paging}

\* the plain command: one page, no mirroring, no scan, no ledger
PlainCfg(wp) ==
    [wp |-> wp, mirror |-> FALSE, autoSkip |-> FALSE, ledger |-> NoPath,
     outfile |-> Path("out", "items", "csv"), hits |-> MaxItems, max |-> MaxItems,
     targetNew |-> 0, noUpdate |-> FALSE, template |-> "none"]

\* the plain CSV-only command without a content template, with one whose file is
\* missing, and with one that is present
TemplateCfgs ==
    {[PlainCfg(FALSE) EXCEPT !.template = t] : t \in {"none", "missing", "present"}}

\* the plain command with --max below the page size and with --target-new 1
LimitCfgs ==
    {[PlainCfg(wp) EXCEPT !.max = 1] : wp \in {FALSE}}
    \cup {[PlainCfg(wp) EXCEPT !.targetNew = 1] : wp \in BOOLEAN}

PipeCfgs == BaseCfgs \cup LimitCfgs \cup TemplateCfgs

\* the answers of the remote to the requests of one published item
PipeScripts ==
    {[k \in 1..MaxAttempts |-> 200], [k \in 1..MaxAttempts |-> 503],
     [k \in 1..MaxAttempts |-> 400]}

AllOk == [k \in 1..MaxAttempts |-> 200]

\* what the template rendering and the built-in generator do for one record,
\* return or raise; failures are drawn for the plain commands
BuildInputs(c) ==
    IF c \notin TemplateCfgs
    THEN [render : {"ok"}, legacy : {"ok"}]
    ELSE IF c.template = "present"
         THEN [render : {"ok", "raise"}, legacy : {"ok", "raise"}]
         ELSE [render : {"ok"}, legacy : {"ok", "raise"}]

\* the publish target's side of one item: everything answered 200, or one
\* thing goes wrong: the term ensure raises, or the pre-lookup, the lookup or
\* the write is answered 503 or 400 throughout
PubFine == [pre |-> AllOk, terms |-> TRUE, find |-> AllOk, write |-> AllOk]

PubInputs(c) ==
    IF c.wp
    THEN {PubFine, [PubFine EXCEPT !.terms = FALSE]}
         \cup {[PubFine EXCEPT !.pre = sc] : sc \in PipeScripts}
         \cup {[PubFine EXCEPT !.find = sc] : sc \in PipeScripts}
         \cup {[PubFine EXCEPT !.write = sc] : sc \in PipeScripts}
    ELSE {PubFine}

NoRun == [pc |-> "idle", offset |-> 1, got |-> 0, newCount |-> 0, page |-> <<>>,
          idx |-> 1, outRows |-> <<>>, skip |-> {}, kept |-> {}, slept |-> 0]
NoItem == [cid |-> <<>>, verdict |-> "none", stages |-> {}, cause |-> "none",
           content |-> <<>>]

\* the start of run_pipeline up to the fetch loop: the skip set of the run
StartRun ==
    /\ run.pc \in {"idle", "done", "crashed"}
    /\ Len(hist) < MaxRuns
    /\ run' = [NoRun EXCEPT
                 !.pc = "loop",
                 !.skip = IF cfg.autoSkip
                          THEN LoadSkipCidsInDir(disk, Dirname(cfg.outfile))
                          ELSE {}]
    /\ item' = NoItem
    /\ UNCHANGED <<wpVars, fileVars, cfg, src, hist, libVars>>

LoopCondition ==
    run.got < cfg.max /\ (cfg.targetNew = 0 \/ run.newCount < cfg.targetNew)

\* _fetch(start=offset, hits=hits): the items from offset on, one page
FetchItems(offset, hits) ==
    LET last == IF offset + hits - 1 < Len(src) THEN offset + hits - 1 ELSE Len(src)
    IN SubSeq(src, offset, last)

\* the while condition is false
LoopExit ==
    /\ run.pc = "loop"
    /\ ~LoopCondition
    /\ run' = [run EXCEPT !.pc = "finish"]
    /\ UNCHANGED <<wpVars, fileVars, cfg, src, item, hist, libVars>>

\* the page has no items: break
FetchEmpty ==
    /\ run.pc = "loop"
    /\ LoopCondition
    /\ FetchItems(run.offset, cfg.hits) = <<>>
    /\ run' = [run EXCEPT !.pc = "finish"]
    /\ UNCHANGED <<wpVars, fileVars, cfg, src, item, hist, libVars>>

FetchPage ==
    /\ run.pc = "loop"
    /\ LoopCondition
    /\ FetchItems(run.offset, cfg.hits) # <<>>
    /\ run' = [run EXCEPT !.pc = "items", !.idx = 1,
                          !.page = FetchItems(run.offset, cfg.hits)]
    /\ UNCHANGED <<wpVars, fileVars, cfg, src, item, hist, libVars>>

\* normalize_item: the record of a raw item before the content is built
NormalizeItem(it) == [cid |-> it.cid, title |-> <<"T">>]

\* the output of a generator, and the title the post gets
Html == "h"
PostTitle == "T1"

\* the content block of run_pipeline: the template when one is configured and
\* its file exists, else the built-in generator; a failed rendering falls back
\* to the built-in generator, and to an empty body when that fails too.  The
\* body is the marker comment followed by the generator's output.
BuildContent(template, render, legacy) ==
    CASE template = "none" ->
           IF legacy = "ok"
           THEN [raised |-> FALSE, content |-> <<"tpl:content(default)", Html>>,
                 logged |-> <<>>]
           ELSE [raised |-> TRUE, content |-> <<>>, logged |-> <<>>]
      [] template = "missing" ->
           IF legacy = "ok"
           THEN [raised |-> FALSE, content |-> <<"tpl:missing", Html>>,
                 logged |-> <<"template_not_found">>]
           ELSE [raised |-> TRUE, content |-> <<>>,
                 logged |-> <<"template_not_found">>]
      [] OTHER ->
           IF render = "ok"
           THEN [raised |-> FALSE, content |-> <<"tpl:post", Html>>, logged |-> <<>>]
           ELSE IF legacy = "ok"
           THEN [raised |-> FALSE, content |-> <<"tpl:content(fallback)", Html>>,
                 logged |-> <<"post_tpl_render_failed">>]
           ELSE [raised |-> FALSE, content |-> <<>>,
                 logged |-> <<"post_tpl_render_failed", "legacy_build_failed">>]

\* why create_or_update_post raised: an error status of the remote, or the
\* subscript of the None that _req returned when its attempts were used up
RaiseCause(up, inp) ==
    IF up.lookup # <<>> /\ up.lookup[Len(up.lookup)] = 400
    THEN "http_error"
    ELSE IF up.lookup # <<>> /\ up.lookup[Len(up.lookup)] # 200
    THEN "no_result"
    ELSE IF inp.write[1] = 400 THEN "http_error" ELSE "no_result"

\* the body of "for it in items" for one item against files and site, with the
\* remote's answers inp and the generators' outcomes bld: the stages that ran,
\* the verdict, and what changed
ItemBody(it, c, r, files, site, inp, bld) ==
    LET row0 == NormalizeItem(it)
        st1 == {"normalize"} \cup (IF c.mirror THEN {"mirror"} ELSE {})
        cid == Strip(row0.cid)
        same == [outRows |-> r.outRows, newCount |-> r.newCount, kept |-> r.kept,
                 disk |-> files, posts |-> site, crashed |-> FALSE,
                 cause |-> "none", content |-> <<>>, logged |-> <<>>]
    IN
    IF cid # <<>> /\ cid \in r.skip
    THEN same @@ [stages |-> st1, verdict |-> "skipped"]
    ELSE IF ~it.pass
    THEN same @@ [stages |-> st1 \cup {"filter"}, verdict |-> "filtered"]
    ELSE
    LET bc == BuildContent(c.template, bld.render, bld.legacy)
        row == row0 @@ [content |-> bc.content]
        st2 == st1 \cup {"filter", "build"}
        built == [same EXCEPT !.content = bc.content, !.logged = bc.logged]
    IN
    IF bc.raised
    THEN [built EXCEPT !.crashed = TRUE, !.cause = "build"]
            @@ [stages |-> st2, verdict |-> "crashed"]
    ELSE IF ~c.wp
    THEN LET led == IF c.ledger # NoPath
                    THEN AppendLedger(files, c.ledger, row @@ [exported_at |-> Now])
                    ELSE [disk |-> files, raised |-> TRUE]
         IN [built EXCEPT
               !.outRows = Append(r.outRows, row),
               !.newCount = IF c.targetNew # 0 THEN r.newCount + 1 ELSE r.newCount,
               !.kept = r.kept \cup {row.cid},
               !.disk = led.disk]
            @@ [stages |-> st2 \cup {"csv_row"}
                              \cup (IF led.raised THEN {} ELSE {"ledger"}),
                verdict |-> "kept"]
    ELSE
    LET look == IF cid # <<>>
                THEN FindPostId(site, cid, inp.pre)
                ELSE [raised |-> FALSE, pid |-> 0, statuses |-> <<>>]
        existing_pid == IF look.raised THEN 0 ELSE look.pid
    IN
    IF c.noUpdate /\ existing_pid # 0
    THEN built @@ [stages |-> st2, verdict |-> "exists"]
    ELSE IF ~inp.terms
    THEN [built EXCEPT !.crashed = TRUE, !.cause = "terms"]
            @@ [stages |-> st2, verdict |-> "crashed"]
    ELSE
    LET up == CreateOrUpdatePost(site, row.cid, PostTitle, inp.find, inp.write) IN
    IF up.raised
    THEN [built EXCEPT !.crashed = TRUE, !.cause = RaiseCause(up, inp)]
            @@ [stages |-> st2 \cup {"publish"}, verdict |-> "crashed"]
    ELSE
    LET led == IF c.ledger # NoPath /\ up.id # 0
               THEN AppendLedger(files, c.ledger, row @@ [posted_at |-> Now])
               ELSE [disk |-> files, raised |-> TRUE]
    IN [built EXCEPT
          !.newCount = IF c.targetNew # 0 /\ up.id # 0 /\ existing_pid = 0
                       THEN r.newCount + 1 ELSE r.newCount,
          !.kept = r.kept \cup {row.cid},
          !.disk = led.disk,
          !.posts = up.posts]
       @@ [stages |-> st2 \cup {"publish"} \cup (IF led.raised THEN {} ELSE {"ledger"}),
           verdict |-> "posted"]

\* the export's cid cells
CidCells(rows) == {rows[k].cid : k \in 1..Len(rows)}

\* one item of the page, from normalize to the sink; an error of the publish
\* target that nothing catches ends the run
ProcessItem ==
    /\ run.pc = "items"
    /\ run.idx <= Len(run.page)
    /\ \E inp \in PubInputs(cfg), bld \in BuildInputs(cfg) :
       \E b \in {ItemBody(run.page[run.idx], cfg, run, disk, posts, inp, bld)} :
          /\ item' = [cid |-> run.page[run.idx].cid, verdict |-> b.verdict,
                      stages |-> b.stages, cause |-> b.cause,
                      content |-> b.content]
          /\ disk' = b.disk
          /\ posts' = b.posts
          /\ run' = [run EXCEPT !.idx = IF b.crashed THEN @ ELSE @ + 1,
                                !.pc = IF b.crashed THEN "crashed" ELSE @,
                                !.outRows = b.outRows,
                                !.newCount = b.newCount,
                                !.kept = b.kept]
          /\ hist' = IF b.crashed
                     THEN Append(hist, [outfile |-> cfg.outfile, kept |-> b.kept,
                                        csv |-> {}, crashed |-> TRUE])
                     ELSE hist
    /\ UNCHANGED <<req, lastCall, prevCall, ledLog, cfg, src, libVars>>

\* after the items of a page: count, advance, break or sleep
PageEnd ==
    /\ run.pc = "items"
    /\ run.idx > Len(run.page)
    /\ LET offset == run.offset + Len(run.page)
           total == Len(src)
       IN run' = [run EXCEPT !.got = @ + Len(run.page),
                             !.offset = offset,
                             !.page = <<>>,
                             !.idx = 1,
                             !.pc = IF offset > total THEN "finish" ELSE "loop",
                             !.slept = IF offset > total THEN @ ELSE @ + 1]
    /\ UNCHANGED <<wpVars, fileVars, cfg, src, item, hist, libVars>>

\* the CSV export and the return
Finish ==
    /\ run.pc = "finish"
    /\ disk' = WriteOutfile(disk, cfg.outfile, run.outRows)
    /\ run' = [run EXCEPT !.pc = "done"]
    /\ hist' = Append(hist, [outfile |-> cfg.outfile, kept |-> run.kept,
                             csv |-> CidCells(run.outRows), crashed |-> FALSE])
    /\ UNCHANGED <<wpVars, ledLog, cfg, src, item, libVars>>

(***************************************************************************)
(* apply_filters (app/core/filters.py).  A pattern is a one-letter regular *)
(* expression, anchored at the start ("^b") or not ("A"); a field's text a *)
(* sequence of letters.                                                    *)
(***************************************************************************)
\* the letter as re.I compares it
LowerCh(c) ==
    CASE c = "A" -> "a"
      [] c = "B" -> "b"
      [] c = "C" -> "c"
      [] c = "D" -> "d"
      [] c = "E" -> "e"
      [] c = "F" -> "f"
      [] c = "G" -> "g"
      [] c = "H" -> "h"
      [] c = "I" -> "i"
      [] c = "J" -> "j"
      [] c = "K" -> "k"
      [] c = "L" -> "l"
      [] c = "M" -> "m"
      [] c = "N" -> "n"
      [] c = "O" -> "o"
      [] c = "P" -> "p"
      [] c = "Q" -> "q"
      [] c = "R" -> "r"
      [] c = "S" -> "s"
      [] c = "T" -> "t"
      [] c = "U" -> "u"
      [] c = "V" -> "v"
      [] c = "W" -> "w"
      [] c = "X" -> "x"
      [] c = "Y" -> "y"
      [] c = "Z" -> "z"
      [] OTHER -> c

\* re.search(p, text or "", re.I)
ReSearch(p, text) ==
    IF p.anch
    THEN text # <<>> /\ LowerCh(text[1]) = LowerCh(p.lit)
    ELSE \E k \in 1..Len(text) : LowerCh(text[k]) = LowerCh(p.lit)

\* a mutant: every pattern of the list has to match
MatchAny_All(patterns, text) ==
    \A k \in 1..Len(patterns) : ReSearch(patterns[k], text)

\* _match_any(patterns, text)
MatchAny(patterns, text) ==
    \E k \in 1..Len(patterns) : ReSearch(patterns[k], text)

\* a mutant: the exclude list is not looked at
CheckField_IgnoresExclude(text, includes, excludes) ==
    IF includes # <<>> /\ ~MatchAny(includes, text) THEN FALSE ELSE TRUE

\* _check_field(text, includes, excludes)
CheckField(text, includes, excludes) ==
    IF includes # <<>> /\ ~MatchAny(includes, text)
    THEN FALSE
    ELSE IF excludes # <<>> /\ MatchAny(excludes, text)
         THEN FALSE
         ELSE TRUE

\* r.get(key, "")
FieldOf(r, key) == IF key \in DOMAIN r THEN r[key] ELSE <<>>

FilterFields == {"maker", "actress", "genres", "title", "cid"}

\* the include and the exclude option of a field, as main.py names them
IncludeOf(f) ==
    CASE f = "maker" -> "include_maker" [] f = "actress" -> "include_actress"
      [] f = "genres" -> "include_genre" [] f = "title" -> "include_title"
      [] f = "cid" -> "include_cid_prefix"

ExcludeOf(f) ==
    CASE f = "maker" -> "exclude_maker" [] f = "actress" -> "exclude_actress"
      [] f = "genres" -> "exclude_genre" [] f = "title" -> "exclude_title"
      [] f = "cid" -> "exclude_cid_prefix"

IncludeArgs == {IncludeOf(f) : f \in FilterFields}
ExcludeArgs == {ExcludeOf(f) : f \in FilterFields}
FilterArgs == IncludeArgs \cup ExcludeArgs

\* the body of the loop of apply_filters for one row: TRUE when it is appended
Passes(r, a) ==
    IF ~CheckField(FieldOf(r, "maker"), a.include_maker, a.exclude_maker)
    THEN FALSE
    ELSE IF ~CheckField(FieldOf(r, "actress"), a.include_actress, a.exclude_actress)
    THEN FALSE
    ELSE IF ~CheckField(FieldOf(r, "genres"), a.include_genre, a.exclude_genre)
    THEN FALSE
    ELSE IF ~CheckField(FieldOf(r, "title"), a.include_title, a.exclude_title)
    THEN FALSE
    ELSE LET cid == FieldOf(r, "cid") IN
    IF a.include_cid_prefix # <<>> /\ ~MatchAny(a.include_cid_prefix, cid)
    THEN FALSE
    ELSE IF a.exclude_cid_prefix # <<>> /\ MatchAny(a.exclude_cid_prefix, cid)
    THEN FALSE
    ELSE TRUE

\* apply_filters(rows, args)
ApplyFilters(rows, a) == SelectSeq(rows, LAMBDA r : Passes(r, a))

\* the inputs: texts, patterns, rows
Texts == {<<"a">>, <<"B", "a">>}
FilterPatterns == {[anch |-> FALSE, lit |-> "A"], [anch |-> TRUE, lit |-> "b"]}
FilterRecs == [maker : Texts, actress : Texts, genres : Texts, title : Texts, cid : Texts]
\* the records that differ from the all-"a" record in at most one field
NearRecs ==
    {r \in FilterRecs : Cardinality({f \in FilterFields : r[f] # <<"a">>}) <= 1}
\* no row, one row of any record, two rows of near records
FilterRowSeqs ==
    {<<>>} \cup {<<r>> : r \in FilterRecs} \cup {<<r, q>> : r \in NearRecs, q \in NearRecs}

\* argparse: every filter option is action="append", default=[]
NoArgs == [n \in FilterArgs |-> <<>>]
NoFilter == [rows |-> <<>>, args |-> NoArgs, out |-> <<>>, pc |-> "parse"]

RECURSIVE SumLens(_, _)
SumLens(a, names) ==
    IF names = {}
    THEN 0
    ELSE LET n == CHOOSE x \in names : TRUE
         IN Len(a[n]) + SumLens(a, names \ {n})

\* one --include-... / --exclude-... option of the command line
AddPattern ==
    /\ flt.pc = "parse"
    /\ SumLens(flt.args, FilterArgs) < MaxPatterns
    /\ \E n \in FilterArgs, p \in FilterPatterns :
          flt' = [flt EXCEPT !.args[n] = Append(@, p)]
    /\ UNCHANGED <<wpVars, fileVars, pipeVars, mir, img, trl, gal, tm, cnt, skp, ftc, aff, prn>>

\* apply_filters(rows, args) with the parsed options
ApplyFiltersCall ==
    /\ flt.pc = "parse"
    /\ flt' = [flt EXCEPT !.out = ApplyFilters(flt.rows, flt.args), !.pc = "done"]
    /\ UNCHANGED <<wpVars, fileVars, pipeVars, mir, img, trl, gal, tm, cnt, skp, ftc, aff, prn>>

(***************************************************************************)
(* The image mirror (app/core/image_mirror.py), with the default           *)
(* environment: IMAGE_MIRROR_MAP = image_mirror_map.csv, no                *)
(* IMAGE_MIRROR_MAP_DIR.  A host is a sequence of characters, a            *)
(* destination URL the host it is on and the source it is a copy of.       *)
(***************************************************************************)
\* the characters _sanitize_site_key keeps: [a-z0-9.\-_]
KeyChars == {"a", "b", "1", ".", "-", "_"}

LowerSeq(t) == [k \in 1..Len(t) |-> LowerCh(t[k])]

\* re.sub(r"[^a-z0-9.\-_]+", "_", s): every run of other characters becomes "_"
RECURSIVE SubRuns(_, _)
SubRuns(t, inRun) ==
    IF t = <<>>
    THEN <<>>
    ELSE IF Head(t) \in KeyChars
         THEN <<Head(t)>> \o SubRuns(Tail(t), FALSE)
         ELSE IF inRun
              THEN SubRuns(Tail(t), TRUE)
              ELSE <<"_">> \o SubRuns(Tail(t), TRUE)

DefaultKey == <<"d", "e", "f", "a", "u", "l", "t">>

\* _sanitize_site_key(s)
SanitizeSiteKey(t) ==
    LET k == SubRuns(LowerSeq(Strip(t)), FALSE)
    IN IF k = <<>> THEN DefaultKey ELSE k

\* _site_key_from_wp(wp_client): the key of the netloc of the client's base URL
SiteKeyFromWp(host) == SanitizeSiteKey(IF host # <<>> THEN host ELSE DefaultKey)

\* _map_path_for_site(site_key): image_mirror_map__{site_key}.csv
MapPathForSite(site_key) ==
    [stem |-> "image_mirror_map", key |-> SanitizeSiteKey(site_key), ext |-> ".csv"]

\* the hosts of the destination sites: two names, and the IPv6 literals
\* [1::] and [::1]
SiteHosts ==
    {<<"a">>, <<"[", "1", ":", ":", "]">>, <<"[", ":", ":", "1", "]">>}

\* a URL: the host it is on and the image it shows; the images of the source
\* are on the provider's host
NoDest == [host |-> <<>>, src |-> ""]
NoUrl == NoDest
SrcUrls == {[host |-> <<"s">>, src |-> "u1"], [host |-> <<"s">>, src |-> "u2"]}

\* _load_map(path): src_url -> row, a later row of the file replacing an
\* earlier one
RECURSIVE LoadMap(_)
LoadMap(rows) ==
    IF rows = <<>>
    THEN <<>>
    ELSE LET r == rows[Len(rows)]
             before == LoadMap(SubSeq(rows, 1, Len(rows) - 1))
         IN [u \in DOMAIN before \cup {r.src_url} |->
                IF u = r.src_url THEN r.dest_url ELSE before[u]]

\* _append_map(path, rows)
AppendMap(files, path, rows) ==
    IF rows = <<>>
    THEN files
    ELSE [q \in DOMAIN files \cup {path} |->
            IF q = path
            THEN (IF path \in DOMAIN files THEN files[path] ELSE <<>>) \o rows
            ELSE files[q]]

\* a mutant: a cache entry is served whatever host its destination is on
MirrorOne_NoHostCheck(url, site, cache_map, to_write, expected_site_host, oc) ==
    IF url \in DOMAIN cache_map /\ cache_map[url] # NoDest
    THEN [mid |-> IF oc = "no_media_id" THEN 0 ELSE 1, dest |-> cache_map[url],
          cache |-> cache_map, to_write |-> to_write,
          downloaded |-> FALSE, uploaded |-> FALSE]
    ELSE IF oc \in {"download_fail", "upload_fail"}
    THEN [mid |-> 0, dest |-> NoDest, cache |-> cache_map, to_write |-> to_write,
          downloaded |-> TRUE, uploaded |-> FALSE]
    ELSE LET dest == [host |-> site, src |-> url.src] IN
         [mid |-> 1, dest |-> dest,
          cache |-> [u \in DOMAIN cache_map \cup {url} |->
                        IF u = url THEN dest ELSE cache_map[u]],
          to_write |-> Append(to_write, [src_url |-> url, dest_url |-> dest]),
          downloaded |-> TRUE, uploaded |-> TRUE]

\* a mutant: a failed image comes back with a media id
MirrorOne_FailedHasId(url, site, cache_map, to_write, expected_site_host, oc) ==
    IF oc \in {"download_fail", "upload_fail"}
    THEN [mid |-> 1, dest |-> NoDest, cache |-> cache_map, to_write |-> to_write,
          downloaded |-> TRUE, uploaded |-> FALSE]
    ELSE MirrorOne_NoHostCheck(url, site, cache_map, to_write, expected_site_host, oc)

\* _mirror_one(url, wp_client, prefix, cache_map, to_write, expected_site_host)
\* for the client of site, the download and the upload going as oc says: the
\* media id (0 for None), the destination (NoDest for None), the cache and the
\* pending rows afterwards, and whether a download and an upload were made
MirrorOne(url, site, cache_map, to_write, expected_site_host, oc) ==
    LET hit ==
          /\ url \in DOMAIN cache_map
          /\ cache_map[url] # NoDest
          /\ ~(/\ expected_site_host # <<>>
               /\ LowerSeq(cache_map[url].host) # <<>>
               /\ LowerSeq(cache_map[url].host) # LowerSeq(expected_site_host))
    IN
    IF url = NoUrl
    THEN [mid |-> 0, dest |-> NoDest, cache |-> cache_map, to_write |-> to_write,
          downloaded |-> FALSE, uploaded |-> FALSE]
    ELSE IF hit
    THEN [mid |-> IF oc = "no_media_id" THEN 0 ELSE 1, dest |-> cache_map[url],
          cache |-> cache_map, to_write |-> to_write,
          downloaded |-> FALSE, uploaded |-> FALSE]
    ELSE IF oc = "download_fail"
    THEN [mid |-> 0, dest |-> NoDest, cache |-> cache_map, to_write |-> to_write,
          downloaded |-> TRUE, uploaded |-> FALSE]
    ELSE IF oc = "upload_fail"
    THEN [mid |-> 0, dest |-> NoDest, cache |-> cache_map, to_write |-> to_write,
          downloaded |-> TRUE, uploaded |-> FALSE]
    ELSE LET dest == [host |-> site, src |-> url.src] IN
         [mid |-> 1, dest |-> dest,
          cache |-> [u \in DOMAIN cache_map \cup {url} |->
                        IF u = url THEN dest ELSE cache_map[u]],
          to_write |-> Append(to_write, [src_url |-> url, dest_url |-> dest]),
          downloaded |-> TRUE, uploaded |-> TRUE]

\* how the download and the upload of one image go, and whether the media id
\* of a cached URL is found
Outcomes == {"ok", "no_media_id", "download_fail", "upload_fail"}

\* the records to mirror: image_large and sample_images
MirrorItems ==
    [image_large : {NoUrl} \cup {u \in SrcUrls : u.src = "u1"},
     sample_images : {<<>>} \cup {<<u>> : u \in SrcUrls}
                            \cup {q \in SrcUrls \X SrcUrls : q[1] # q[2]}]
    \ {[image_large |-> NoUrl, sample_images |-> <<>>]}

\* one _mirror_one call as the claims look at it: the cache entry it found,
\* what it returned and did, the cache entry it left
CallOf(url, cache_map, expected, oc, r) ==
    [url |-> url,
     entry |-> IF url \in DOMAIN cache_map THEN cache_map[url] ELSE NoDest,
     expected |-> expected, oc |-> oc, dest |-> r.dest, mid |-> r.mid,
     downloaded |-> r.downloaded, uploaded |-> r.uploaded,
     after |-> IF url \in DOMAIN r.cache THEN r.cache[url] ELSE NoDest]

NoRec == [image_large |-> NoUrl, sample_images |-> <<>>]
NoOut == [image_large |-> NoUrl, image_large_id |-> 0, sample_images |-> <<>>,
          sample_image_ids |-> <<>>]

NoMirror == [maps |-> <<>>, uploads |-> <<>>, clean |-> TRUE, n |-> 0,
             pc |-> "idle", site |-> <<>>, rec |-> NoRec, out |-> NoOut,
             cache |-> <<>>, pending |-> <<>>, idx |-> 1, calls |-> <<>>]

\* the number of uploads made for site of the image url
UploadCount(ups, site, url) ==
    IF <<site, url>> \in DOMAIN ups THEN ups[<<site, url>>] ELSE 0

CountUpload(ups, site, url) ==
    [k \in DOMAIN ups \cup {<<site, url>>} |->
        IF k = <<site, url>> THEN UploadCount(ups, site, url) + 1 ELSE ups[k]]

\* mirror_item_images(item, wp_client, prefix) up to the poster: the site's
\* cache file is loaded
MirrorBegin ==
    /\ mir.pc = "idle"
    /\ mir.n < MaxMirrors
    /\ \E site \in SiteHosts, rec \in MirrorItems :
          LET map_path == MapPathForSite(SiteKeyFromWp(site)) IN
          mir' = [mir EXCEPT
                    !.pc = "poster", !.site = site, !.rec = rec,
                    !.out = [NoOut EXCEPT !.image_large = rec.image_large],
                    !.cache = IF map_path \in DOMAIN mir.maps
                              THEN LoadMap(mir.maps[map_path]) ELSE <<>>,
                    !.pending = <<>>, !.idx = 1, !.calls = <<>>]
    /\ UNCHANGED <<wpVars, fileVars, pipeVars, flt, img, trl, gal, tm, cnt, skp, ftc, aff, prn>>

\* the poster: _mirror_one on image_large when there is one
MirrorPoster ==
    /\ mir.pc = "poster"
    /\ IF mir.rec.image_large = NoUrl
       THEN mir' = [mir EXCEPT !.pc = "samples"]
       ELSE \E oc \in Outcomes :
            \E r \in {MirrorOne(mir.rec.image_large, mir.site, mir.cache,
                                mir.pending, mir.site, oc)} :
               mir' = [mir EXCEPT
                         !.pc = "samples",
                         !.out.image_large = IF r.dest # NoDest THEN r.dest ELSE @,
                         !.out.image_large_id = r.mid,
                         !.cache = r.cache, !.pending = r.to_write,
                         !.uploads = IF r.uploaded
                                     THEN CountUpload(@, mir.site, mir.rec.image_large)
                                     ELSE @,
                         !.clean = @ /\ oc = "ok",
                         !.calls = Append(@, CallOf(mir.rec.image_large, mir.cache,
                                                    mir.site, oc, r))]
    /\ UNCHANGED <<wpVars, fileVars, pipeVars, flt, img, trl, gal, tm, cnt, skp, ftc, aff, prn>>

\* one round of "for u in samples": out.append(nu or u)
MirrorSample ==
    /\ mir.pc = "samples"
    /\ mir.idx <= Len(mir.rec.sample_images)
    /\ \E oc \in Outcomes :
       \E u \in {mir.rec.sample_images[mir.idx]} :
       \E r \in {MirrorOne(u, mir.site, mir.cache, mir.pending, mir.site, oc)} :
          mir' = [mir EXCEPT
                    !.idx = @ + 1,
                    !.out.sample_images = Append(@, IF r.dest # NoDest THEN r.dest ELSE u),
                    !.out.sample_image_ids = IF r.mid # 0 THEN Append(@, r.mid) ELSE @,
                    !.cache = r.cache, !.pending = r.to_write,
                    !.uploads = IF r.uploaded THEN CountUpload(@, mir.site, u) ELSE @,
                    !.clean = @ /\ oc = "ok",
                    !.calls = Append(@, CallOf(u, mir.cache, mir.site, oc, r))]
    /\ UNCHANGED <<wpVars, fileVars, pipeVars, flt, img, trl, gal, tm, cnt, skp, ftc, aff, prn>>

\* the end of mirror_item_images: the pending rows go to the site's cache file
\* and the item is returned
MirrorEnd ==
    /\ mir.pc = "samples"
    /\ mir.idx > Len(mir.rec.sample_images)
    /\ mir' = [mir EXCEPT
                 !.pc = "idle", !.n = @ + 1,
                 !.maps = AppendMap(@, MapPathForSite(SiteKeyFromWp(mir.site)),
                                    mir.pending)]
    /\ UNCHANGED <<wpVars, fileVars, pipeVars, flt, img, trl, gal, tm, cnt, skp, ftc, aff, prn>>

(***************************************************************************)
(* Image URLs of a record: normalize_item of the two providers             *)
(* (app/providers/fanza.py, app/providers/fanza_book.py) and the image     *)
(* stage of the orchestrator (pipeline.py _filter_and_enhance).  A URL is  *)
(* a sequence of characters, so that the substring tests and the rewrites  *)
(* are computed.                                                           *)
(***************************************************************************)
MaxSamples == 2

\* the characters of the URLs, in code-point order (str comparison in sorted())
Alphabet == <<"-", ".", "/", "0", "1", "2", "3", "4", "5", "6", "7", "8", "9", ":", "=",
    "?", "N", "_", "a", "b", "c", "d", "e", "f", "g", "h", "i", "j", "k", "l", "m", "n",
    "o", "p", "q", "r", "s", "t", "u", "v", "w", "x", "y", "z", "|">>
Ord(c) == CHOOSE i \in 1..Len(Alphabet) : Alphabet[i] = c
Digits == {"0", "1", "2", "3", "4", "5", "6", "7", "8", "9"}

RECURSIVE StrLess(_, _)
StrLess(a, b) ==
    IF b = <<>> THEN FALSE
    ELSE IF a = <<>> THEN TRUE
    ELSE IF a[1] = b[1] THEN StrLess(Tail(a), Tail(b))
    ELSE Ord(a[1]) < Ord(b[1])

Contains(s, sub) ==
    \E i \in 1..(Len(s) - Len(sub) + 1) : SubSeq(s, i, i + Len(sub) - 1) = sub
StartsWith(s, p) == Len(s) >= Len(p) /\ SubSeq(s, 1, Len(p)) = p
EndsWith(s, p) == Len(s) >= Len(p) /\ SubSeq(s, Len(s) - Len(p) + 1, Len(s)) = p
From(s, i) == SubSeq(s, i, Len(s))
MinOf(S) == CHOOSE x \in S : \A y \in S : x <= y
MaxOf(S) == CHOOSE x \in S : \A y \in S : x >= y

\* fanza.py:286, the substrings _is_now_printing_url_like looks for
PlaceholderMarkers ==
    {<<"n", "o", "w", "_", "p", "r", "i", "n", "t", "i", "n", "g">>, <<"n", "o", "w", "p",
        "r", "i", "n", "t", "i", "n", "g">>, <<"n", "o", "i", "m", "a", "g", "e">>, <<"n",
        "o", "_", "i", "m", "a", "g", "e">>, <<"n", "o", "p", "i", "c">>, <<"n", "o", "i",
        "m", "g">>}
\* fanza.py:216 and 293, the substrings _upgrade_dmm_size and
\* _fast_placeholder_heuristic look for
HeuristicMarkers ==
    {<<"n", "o", "w", "_", "p", "r", "i", "n", "t">>, <<"n", "o", "w", "p", "r", "i", "n",
        "t", "i", "n", "g">>, <<"n", "o", "i", "m", "a", "g", "e">>, <<"n", "o", "_", "i",
        "m", "a", "g", "e">>, <<"n", "o", "p", "i", "c">>, <<"n", "o", "i", "m", "g">>}

ContainsAny(s, subs) == \E m \in subs : Contains(s, m)

\* _is_now_printing_url_like(u)
IsNowPrintingUrlLike(u) ==
    u = <<>> \/ ContainsAny(LowerSeq(u), PlaceholderMarkers)

\* _fast_placeholder_heuristic(u)
FastPlaceholderHeuristic(u) ==
    u = <<>> \/ ContainsAny(LowerSeq(u), HeuristicMarkers)

ImageExts == {<<"j", "p", "g">>, <<"j", "p", "e", "g">>, <<"p", "n", "g">>, <<"w", "e", "b", "p">>}

\* (\d+)\.(jpg|jpeg|png|webp) matched at the start of t: the lengths of the
\* number and of the extension (at most one pair)
NumExtAt(t) ==
    {q \in (1..Len(t)) \X {Len(e) : e \in ImageExts} :
        /\ Len(t) >= q[1] + 1 + q[2]
        /\ \A k \in 1..q[1] : t[k] \in Digits
        /\ t[q[1] + 1] = "."
        /\ SubSeq(t, q[1] + 2, q[1] + 1 + q[2]) \in ImageExts}

\* where re.sub(prefix(\d+)\.(ext)<tail>$, ..., flags=re.I) matches in u; with
\* query the tail is (\?.*)?, without it the match ends the string
NumExtHitsLow(low, prefix, query) ==
    {i \in 1..Len(low) :
        /\ StartsWith(From(low, i), prefix)
        /\ \E t \in {From(low, i + Len(prefix))} :
              \E q \in NumExtAt(t) :
                 \/ q[1] + 1 + q[2] = Len(t)
                 \/ query /\ t[q[1] + 2 + q[2]] = "?"}

NumExtHits(u, prefix, query) == NumExtHitsLow(LowerSeq(u), prefix, query)

\* re.sub(prefix(\d+)\.(ext)<tail>$, put + r'\1.jpg', u, flags=re.I)
SubNumExtAt(u, prefix, hits, put) ==
    IF hits = {} THEN u
    ELSE LET i == MinOf(hits)
             t == From(u, i + Len(prefix))
             q == CHOOSE q \in NumExtAt(LowerSeq(t)) : TRUE
         IN SubSeq(u, 1, i - 1) \o put \o SubSeq(t, 1, q[1]) \o <<".", "j", "p", "g">>

SubNumExt(u, prefix, query, put) ==
    SubNumExtAt(u, prefix, NumExtHits(u, prefix, query), put)

\* fanza.py:224-229, /cid/cid-N.ext -> /cid/cidjp-N.jpg (the URLs of the model
\* hold one such path at most)
AwsHitsLow(low) ==
    {q \in (1..Len(low)) \X (1..Len(low)) :
        /\ q[1] + 1 < q[2]
        /\ low[q[1]] = "/" /\ low[q[2]] = "/"
        /\ \A k \in (q[1] + 1)..(q[2] - 1) : low[k] # "/"
        /\ LET seg == SubSeq(low, q[1] + 1, q[2] - 1)
               rest == From(low, q[2] + 1)
           IN /\ StartsWith(rest, seg \o <<"-">>)
              /\ NumExtAt(From(rest, Len(seg) + 2)) # {}}

AwsHits(u) == AwsHitsLow(LowerSeq(u))

AwsToJpAt(u, hits) ==
    IF hits = {} THEN u
    ELSE LET i == MinOf({q[1] : q \in hits})
             j == CHOOSE j \in 1..Len(u) : <<i, j>> \in hits
             cid == SubSeq(u, i + 1, j - 1)
             t == From(u, j + Len(cid) + 2)
             q == CHOOSE q \in NumExtAt(LowerSeq(t)) : TRUE
         IN SubSeq(u, 1, j) \o cid \o <<"j", "p", "-">> \o SubSeq(t, 1, q[1]) \o <<".", "j",
             "p", "g">>
               \o From(t, q[1] + 2 + q[2])

AwsToJp(u) == AwsToJpAt(u, AwsHits(u))

\* _clean_query_keep_webp(u): the query is dropped, f=webp is kept (the URLs
\* of the model have no fragment and one query parameter at most)
CleanQueryKeepWebp(u) ==
    IF \A i \in 1..Len(u) : u[i] # "?" THEN u
    ELSE LET i == MinOf({k \in 1..Len(u) : u[k] = "?"})
             path == SubSeq(u, 1, i - 1)
             query == From(u, i + 1)
         IN IF StartsWith(query, <<"f", "=">>) /\ LowerSeq(From(query, 3)) = <<"w", "e", "b", "p">>
            THEN path \o <<"?", "f", "=", "w", "e", "b", "p">>
            ELSE path

\* fanza.py:215-232, u with its scheme and low = u.lower()
UpgradeLow(u, low) ==
    IF ContainsAny(low, HeuristicMarkers) THEN <<>>
    ELSE IF Contains(low, <<"d", "m", "m", ".", "c", "o", ".", "j",
        "p">>) \/ Contains(low, <<"d", "m", "m", ".", "c", "o", "m">>)
    THEN IF Contains(low, <<"a", "w", "s", "i", "m", "g", "s", "r", "c", ".", "d", "m", "m",
        ".", "c", "o", ".", "j", "p">>)
         THEN CleanQueryKeepWebp(AwsToJp(SubNumExt(u, <<"j", "s", "-">>, TRUE, <<"j", "p", "-">>)))
         ELSE CleanQueryKeepWebp(SubNumExt(u, <<"j", "s", "-">>, TRUE, <<"j", "p", "-">>))
    ELSE u

UpgradeWithScheme(u) == UpgradeLow(u, LowerSeq(u))

\* _upgrade_dmm_size(u)
UpgradeDmmSize(u) ==
    IF u = <<>> THEN u
    ELSE UpgradeWithScheme(IF StartsWith(u, <<"/", "/">>) THEN <<"h", "t", "t", "p", "s",
        ":">> \o u ELSE u)

\* fanza.py:334, re.search(r"\.(jpg|jpeg|png|webp)(\?|$)", u, re.I)
HasImageExtLow(low) ==
    \E i \in 1..Len(low), e \in ImageExts :
       /\ low[i] = "."
       /\ StartsWith(From(low, i + 1), e)
       /\ (i + Len(e) = Len(low) \/ low[i + Len(e) + 1] = "?")

HasImageExt(u) == HasImageExtLow(LowerSeq(u))

\* the order-keeping removal of duplicates (seen / uniq)
RECURSIVE Uniq(_)
Uniq(s) ==
    IF s = <<>> THEN <<>>
    ELSE LET r == Uniq(SubSeq(s, 1, Len(s) - 1))
             last == s[Len(s)]
         IN IF \E k \in 1..Len(r) : r[k] = last THEN r ELSE Append(r, last)

\* _extract_sample_images._score
SampleScore(u) ==
    (IF EndsWith(LowerSeq(u), <<"p", "l", ".", "j", "p", "g">>) THEN 2 ELSE 0)
       + (IF Contains(LowerSeq(u), <<"j", "p", "-">>) THEN 1 ELSE 0)

\* u.rsplit("/", 1)[-1]
BaseName(u) ==
    IF \A i \in 1..Len(u) : u[i] # "/" THEN u
    ELSE From(u, MaxOf({i \in 1..Len(u) : u[i] = "/"}) + 1)

\* _extract_sample_images._key
SampleKey(u) ==
    SubNumExt(SubNumExt(SubNumExt(BaseName(u), <<"j", "s", "-">>, FALSE, <<>>),
                        <<"j", "p", "-">>, FALSE, <<>>),
              <<"-">>, FALSE, <<>>)

\* _is_large_hint(u)
IsLargeHint(u) ==
    \/ Contains(LowerSeq(u), <<"j", "p", "-">>)
    \/ EndsWith(LowerSeq(u), <<"p", "l", ".", "j", "p", "g">>)
    \/ Contains(LowerSeq(u), <<"s", "a", "m", "p", "l", "e", "_", "l">>)

\* sorted(S, key): the one arrangement of S that ascends
SortedBy(S, Less(_, _)) ==
    CHOOSE s \in [1..Cardinality(S) -> S] :
       \A i \in 1..(Cardinality(S) - 1) : Less(s[i], s[i + 1])

\* out.sort(key=lambda x: (not _is_large_hint(x), x))
LargeFirst(a, b) ==
    \/ IsLargeHint(a) /\ ~IsLargeHint(b)
    \/ IsLargeHint(a) = IsLargeHint(b) /\ StrLess(a, b)

\* fanza.py:327-356, the cleaned URLs of the item, each once (uniq); strings
\* is the sequence of strings _collect meets in the item
CollectUrls(strings) ==
    LET up == [k \in 1..Len(strings) |-> UpgradeDmmSize(Strip(strings[k]))]
        Keep(u) == u # <<>> /\ HasImageExt(u)
    IN Uniq(SelectSeq(up, Keep))

\* by_key.get(k): the position of key k in by_key, 0 for none; by_key is the
\* dict as its (key, URL) pairs in insertion order
KeyPos(by_key, k) ==
    IF \E p \in 1..Len(by_key) : by_key[p].k = k
    THEN CHOOSE p \in 1..Len(by_key) : by_key[p].k = k
    ELSE 0

\* a mutant: the URL that came first stays, whatever its score
ByKeyPut_KeepsFirst(by_key, u, k, pos) ==
    IF pos = 0 THEN Append(by_key, [k |-> k, u |-> u]) ELSE by_key

\* fanza.py:370-373, one round of the loop over uniq
ByKeyPut(by_key, u, k, pos) ==
    IF pos = 0 THEN Append(by_key, [k |-> k, u |-> u])
    ELSE IF SampleScore(u) > SampleScore(by_key[pos].u)
    THEN [by_key EXCEPT ![pos].u = u]
    ELSE by_key

ByKeyStep(by_key, u, k) == ByKeyPut(by_key, u, k, KeyPos(by_key, k))

\* fanza.py:368-373, by_key after the first i URLs of uniq
RECURSIVE ByKey(_, _)
ByKey(uniq, i) ==
    IF i = 0 THEN <<>>
    ELSE ByKeyStep(ByKey(uniq, i - 1), uniq[i], SampleKey(uniq[i]))

\* fanza.py:375-377, out = list(by_key.values()) and its sort
SortLargeFirst(by_key) ==
    SortedBy({by_key[p].u : p \in 1..Len(by_key)}, LargeFirst)

KeyedUniq(uniq) == SortLargeFirst(ByKey(uniq, Len(uniq)))

\* _extract_sample_images(it)
ExtractSampleImages(strings) == KeyedUniq(CollectUrls(strings))

\* "|".join(urls)
RECURSIVE JoinBar(_)
JoinBar(urls) ==
    IF urls = <<>> THEN <<>>
    ELSE IF Len(urls) = 1 THEN urls[1]
    ELSE urls[1] \o <<"|">> \o JoinBar(Tail(urls))

\* [s for s in cell.split("|") if s]
RECURSIVE SplitBar(_)
SplitBar(cell) ==
    IF cell = <<>> THEN <<>>
    ELSE IF \A i \in 1..Len(cell) : cell[i] # "|" THEN <<cell>>
    ELSE LET i == MinOf({k \in 1..Len(cell) : cell[k] = "|"})
         IN (IF i = 1 THEN <<>> ELSE <<SubSeq(cell, 1, i - 1)>>)
               \o SplitBar(From(cell, i + 1))

\* _prefer_bigger_jacket_from_path(img_url, cid): the URLs it can return, the
\* first candidate whose HEAD request succeeds or img_url when none does
JacketSuffixes(img_url) ==
    IF Contains(LowerSeq(img_url), <<"/", "d", "i", "g", "i", "t", "a", "l", "/", "a", "m",
        "a", "t", "e", "u", "r", "/">>)
    THEN {<<"j", "p", ".", "j", "p", "g">>, <<"p", "l", ".", "j", "p", "g">>, <<"p", "f",
        ".", "j", "p", "g">>, <<"p", "s", ".", "j", "p", "g">>, <<"j", "m", ".", "j", "p",
        "g">>}
    ELSE {<<"p", "l", ".", "j", "p", "g">>, <<"p", "t", ".", "j", "p", "g">>, <<"p", "f",
        ".", "j", "p", "g">>, <<"p", "s", ".", "j", "p", "g">>, <<"j", "p", ".", "j", "p",
        "g">>, <<"j", "m", ".", "j", "p", "g">>}

PreferBiggerJacket(img_url, cid) ==
    IF img_url = <<>> \/ cid = <<>> THEN {img_url}
    ELSE {img_url} \cup
         {SubSeq(img_url, 1, MaxOf({i \in 1..Len(img_url) : img_url[i] = "/"}))
             \o cid \o suffix : suffix \in JacketSuffixes(img_url)}

\* fanza.py:406-414, the poster URL before the jacket lookup
FanzaPoster(it) ==
    LET up == UpgradeDmmSize(IF it.large # <<>> THEN it.large ELSE it.list)
    IN IF IsNowPrintingUrlLike(up) THEN <<>> ELSE up

\* fanza.py:425-428, the fallback to the first sample
PosterOrSample(image_large, first_sample) ==
    IF /\ \/ image_large = <<>>
          \/ IsNowPrintingUrlLike(image_large)
          \/ EndsWith(LowerSeq(image_large), <<"j", "m", ".", "j", "p", "g">>)
       /\ first_sample # <<>>
       /\ Contains(LowerSeq(first_sample), <<"j", "p", "-">>)
    THEN first_sample ELSE image_large

\* fanza.py:418-441; better is what the jacket lookup returned
FanzaRow(cid, image_large, sample_images, better) ==
    [image_large |->
        PosterOrSample(IF /\ image_large # <<>>
                          /\ Contains(image_large, <<"p", "i", "c", "s", ".", "d", "m", "m",
                              ".", "c", "o", ".", "j", "p">>)
                          /\ cid # <<>>
                          /\ better # <<>> /\ better # image_large
                       THEN better ELSE image_large,
                       IF sample_images # <<>> THEN sample_images[1] ELSE <<>>),
     sample_images |-> JoinBar(sample_images)]

\* fanza.py normalize_item: the image fields of the row
FanzaNormalizeItem(it, better) ==
    FanzaRow(it.cid, FanzaPoster(it), ExtractSampleImages(it.samples), better)

\* fanza_book.py:145, the default of MAX_GALLERY
MaxGallery == 12

\* fanza_book.py _pick_sample_urls(prod, max_count)
PickSampleUrls(strings, max_count) ==
    LET stripped == [k \in 1..Len(strings) |-> Strip(strings[k])]
        NonEmpty(u) == u # <<>>
        out == Uniq(SelectSeq(stripped, NonEmpty))
    IN SubSeq(out, 1, IF Len(out) < max_count THEN Len(out) ELSE max_count)

\* fanza_book.py normalize_item: the image fields of the row
BookNormalizeItem(prod) ==
    [image_large |-> IF prod.large # <<>> THEN prod.large ELSE prod.list,
     sample_images |-> JoinBar(PickSampleUrls(prod.samples, MaxGallery))]

\* _pick_best_feature(sample_urls)
FeatureScoreLow(s) ==
    (IF Contains(s, <<"j", "p", "-">>) THEN 3 ELSE 0)
       + (IF EndsWith(s, <<"p", "l", ".", "j", "p", "g">>) THEN 2 ELSE 0)
       + (IF EndsWith(s, <<"-", "1", ".", "j", "p", "g">>) \/ Contains(s, <<"-", "1", ".",
           "j", "p", "g", "?">>) THEN 1 ELSE 0)

FeatureScore(u) == FeatureScoreLow(LowerSeq(u))

BestFirst(a, b) ==
    \/ FeatureScore(a) > FeatureScore(b)
    \/ FeatureScore(a) = FeatureScore(b) /\ StrLess(a, b)

PickBestFeature(sample_urls) ==
    IF sample_urls = <<>> THEN <<>>
    ELSE SortedBy({sample_urls[k] : k \in 1..Len(sample_urls)}, BestFirst)[1]

\* _probe_is_placeholder(u, use_network=use_head); head is what the HEAD
\* request shows (a placeholder or a small file) when it is sent
ProbeIsPlaceholder(u, use_network, head) ==
    IF FastPlaceholderHeuristic(u) THEN TRUE
    ELSE IF ~use_network THEN FALSE
    ELSE head

\* pipeline.py:99-110 and 124-130, the placeholder test of image_large
IsPlaceholder(image_large, args, head) ==
    \/ image_large = <<>>
    \/ IsNowPrintingUrlLike(image_large)
    \/ ProbeIsPlaceholder(image_large, ~args.no_head_check, head)

\* pipeline.py:111-118, the replacement of a placeholder by a sample
Enhance(image_large, samples, cand, args, head) ==
    IF /\ args.verify_images
       /\ IsPlaceholder(image_large, args, head)
       /\ samples # <<>>
       /\ cand # <<>> /\ ~FastPlaceholderHeuristic(cand)
    THEN cand ELSE image_large

\* pipeline.py:120-137, the cuts
Kept(image_large, samples, args, head, newer) ==
    /\ ~(args.skip_placeholder /\ IsPlaceholder(image_large, args, head))
    /\ Len(samples) >= args.min_samples
    /\ ~newer

Enhanced(row, image_large, samples, args, head, newer) ==
    [row |-> [row EXCEPT !.image_large = image_large],
     kept |-> Kept(image_large, samples, args, head, newer)]

FilterSamples(row, samples, args, head, newer) ==
    Enhanced(row, Enhance(row.image_large, samples, PickBestFeature(samples),
                          args, head),
             samples, args, head, newer)

\* _filter_and_enhance(row, args): the row it returns, kept FALSE for None
FilterAndEnhance(row, args, head, newer) ==
    FilterSamples(row, SplitBar(row.sample_images), args, head, newer)

\* the image URLs the source API returns
JacketUrls ==
    {<<"h", "t", "t", "p", "s", ":", "/", "/", "p", "i", "c", "s", ".", "d", "m", "m", ".",
        "c", "o", ".", "j", "p", "/", "d", "i", "g", "i", "t", "a", "l", "/", "v", "i", "d",
        "e", "o", "/", "a", "b", "/", "a", "b", "p", "s", ".", "j", "p", "g">>,
     <<"h", "t", "t", "p", "s", ":", "/", "/", "p", "i", "c", "s", ".", "d", "m", "m", ".",
         "c", "o", ".", "j", "p", "/", "d", "i", "g", "i", "t", "a", "l", "/", "v", "i",
         "d", "e", "o", "/", "a", "b", "/", "a", "b", "j", "m", ".", "j", "p", "g">>,
     <<"h", "t", "t", "p", "s", ":", "/", "/", "p", "i", "c", "s", ".", "d", "m", "m", ".",
         "c", "o", ".", "j", "p", "/", "m", "o", "n", "o", "/", "n", "o", "w", "_", "p",
         "r", "i", "n", "t", "i", "n", "g", ".", "j", "p", "g">>,
     <<"h", "t", "t", "p", "s", ":", "/", "/", "x", ".", "j", "p", "/", "N", "o", "i", "m",
         "g", ".", "p", "n", "g">>}
ListUrls ==
    {<<"h", "t", "t", "p", "s", ":", "/", "/", "p", "i", "c", "s", ".", "d", "m", "m", ".",
        "c", "o", ".", "j", "p", "/", "d", "i", "g", "i", "t", "a", "l", "/", "v", "i", "d",
        "e", "o", "/", "a", "b", "/", "a", "b", "p", "t", ".", "j", "p", "g">>}
SampleUrls ==
    {<<"h", "t", "t", "p", "s", ":", "/", "/", "p", "i", "c", "s", ".", "d", "m", "m", ".",
        "c", "o", ".", "j", "p", "/", "d", "i", "g", "i", "t", "a", "l", "/", "v", "i", "d",
        "e", "o", "/", "a", "b", "/", "a", "b", "j", "s", "-", "1", ".", "j", "p", "g", "?",
        "w", "=", "1">>,
     <<"h", "t", "t", "p", "s", ":", "/", "/", "p", "i", "c", "s", ".", "d", "m", "m", ".",
         "c", "o", ".", "j", "p", "/", "d", "i", "g", "i", "t", "a", "l", "/", "v", "i",
         "d", "e", "o", "/", "a", "b", "/", "a", "b", "j", "p", "-", "1", ".", "j", "p",
         "g">>,
     <<"h", "t", "t", "p", "s", ":", "/", "/", "a", "w", "s", "i", "m", "g", "s", "r", "c",
         ".", "d", "m", "m", ".", "c", "o", ".", "j", "p", "/", "a", "b", "/", "a", "b",
         "-", "2", ".", "j", "p", "g", "?", "f", "=", "w", "e", "b", "p">>,
     <<"/", "/", "p", "i", "c", "s", ".", "d", "m", "m", ".", "c", "o", ".", "j", "p", "/",
         "m", "o", "n", "o", "/", "n", "o", "i", "m", "a", "g", "e", ".", "j", "p", "g">>,
     <<"h", "t", "t", "p", "s", ":", "/", "/", "x", ".", "j", "p", "/", "a", ".", "t", "x", "t">>}

SampleLists == UNION {[1..n -> SampleUrls] : n \in 0..MaxSamples}

ApiItems ==
    [large : JacketUrls \cup {<<>>}, list : ListUrls \cup {<<>>},
     samples : SampleLists, cid : {<<"a", "b">>}]

\* main.py:62-65 and 86, the options of the image stage (--min-samples at
\* its default)
ImageArgs ==
    [verify_images : BOOLEAN, skip_placeholder : BOOLEAN,
     no_head_check : BOOLEAN, min_samples : {1}]

Providers == {"fanza", "fanza_book"}

NoRow == [image_large |-> <<>>, sample_images |-> <<>>]
NoImages ==
    [pc |-> "none", provider |-> "fanza", args |-> [verify_images |-> FALSE,
        skip_placeholder |-> FALSE, no_head_check |-> FALSE, min_samples |-> 1],
     raw |-> [large |-> <<>>, list |-> <<>>, samples |-> <<>>, cid |-> <<>>],
     row |-> NoRow]

\* pipeline.py:303/307 and 367, row = _normalize(it)
ImgNormalize ==
    /\ img.pc = "raw"
    /\ \E better \in IF img.provider = "fanza"
                     THEN PreferBiggerJacket(FanzaPoster(img.raw),
                                             LowerSeq(img.raw.cid))
                     ELSE {<<>>} :
          \E r \in {IF img.provider = "fanza"
                    THEN FanzaNormalizeItem(img.raw, better)
                    ELSE BookNormalizeItem(img.raw)} :
             img' = [img EXCEPT !.pc = "row", !.row = r]
    /\ UNCHANGED <<wpVars, fileVars, pipeVars, flt, mir, trl, gal, tm, cnt, skp, ftc, aff, prn>>

\* row = _filter_and_enhance(row, args)
ImgFilterAndEnhance ==
    /\ img.pc = "row"
    /\ \E head \in BOOLEAN, newer \in BOOLEAN :
          \E f \in {FilterAndEnhance(img.row, img.args, head, newer)} :
             img' = [img EXCEPT !.pc = IF f.kept THEN "kept" ELSE "skipped",
                                !.row = f.row]
    /\ UNCHANGED <<wpVars, fileVars, pipeVars, flt, mir, trl, gal, tm, cnt, skp, ftc, aff, prn>>

(***************************************************************************)
(* The trailer fields of a record: _extract_trailer_fields and the end of  *)
(* normalize_item (app/providers/fanza.py), the player size step and       *)
(* sanitize_trailer_fields as run_pipeline calls them.  None and the empty *)
(* string are both the empty sequence.                                     *)
(***************************************************************************)
\* sanitize_trailer_fields.is_direct(url)
IsDirect(url) ==
    \/ EndsWith(LowerSeq(url), <<".", "m", "p", "4">>)
    \/ EndsWith(LowerSeq(url), <<".", "m", "3", "u", "8">>)
    \/ Contains(LowerSeq(url), <<".", "m", "p", "4", "?">>)
    \/ Contains(LowerSeq(url), <<".", "m", "3", "u", "8", "?">>)

\* what a dict is once it is a cell or a template value
DictValue == <<"{", "}">>

\* _extract_trailer_fields(it): the first value that is set, of the embed
\* keys and of the poster keys
ExtractTrailerFields(it) ==
    [trailer_url |-> <<>>,
     trailer_poster |-> IF it.trailer_poster # <<>> THEN it.trailer_poster
                        ELSE IF it.imageURL THEN DictValue ELSE <<>>,
     trailer_embed |-> IF it.trailer_embed # <<>> THEN it.trailer_embed
                       ELSE it.embed_url]

\* build_fanza_iframe_src(cid, affiliate_id, size); <<>> for None
BuildFanzaIframeSrc(cid, affiliate_id, size) ==
    IF cid = <<>> \/ affiliate_id = <<>> THEN <<>>
    ELSE <<"h", "t", "t", "p", "s", ":", "/", "/", "w", "w", "w", ".", "d", "m", "m", ".",
        "c", "o", ".", "j", "p", "/", "l", "i", "t", "e", "v", "i", "d", "e", "o", "/", "-",
        "/", "p", "a", "r", "t", "/", "=", "/", "a", "f", "f", "i", "_", "i", "d",
        "=">> \o Strip(affiliate_id)
            \o <<"/", "c", "i", "d", "=">> \o Strip(cid) \o <<"/", "s", "i", "z", "e",
                "=">> \o Strip(size) \o <<"/">>

\* the number of digits s holds from position i on
DigitRun(s, i) ==
    MaxOf({n \in 0..(Len(s) - i + 1) : \A k \in 0..(n - 1) : s[i + k] \in Digits})

\* the length of the match of size=\d+_\d+ at position i of s, 0 for none
SizeMatch(s, i) ==
    IF ~StartsWith(From(s, i), <<"s", "i", "z", "e", "=">>) THEN 0
    ELSE LET w == DigitRun(s, i + 5)
             h == DigitRun(s, i + 6 + w)
         IN IF w > 0 /\ i + 5 + w <= Len(s) /\ s[i + 5 + w] = "_" /\ h > 0
            THEN 6 + w + h ELSE 0

\* re.sub(r"size=\d+_\d+", put, s), from position i on
RECURSIVE SubSize(_, _, _)
SubSize(s, i, put) ==
    IF i > Len(s) THEN <<>>
    ELSE IF SizeMatch(s, i) > 0 THEN put \o SubSize(s, i + SizeMatch(s, i), put)
    ELSE <<s[i]>> \o SubSize(s, i + 1, put)

\* s.replace(old, new), from position i on
RECURSIVE Replace(_, _, _, _)
Replace(s, i, old, new) ==
    IF i > Len(s) THEN <<>>
    ELSE IF StartsWith(From(s, i), old) THEN new \o Replace(s, i + Len(old), old, new)
    ELSE <<s[i]>> \o Replace(s, i + 1, old, new)

SizeOf(w, h) == <<"s", "i", "z", "e", "=">> \o w \o <<"_">> \o h

\* fanza.py:443-474, the trailer fields of the row normalize_item returns;
\* image_large and first_sample are the row's image fields, conf the .env
TrailerEmbed(embed, conf) ==
    IF embed = <<>> THEN <<>> ELSE SubSize(embed, 1, SizeOf(conf.w, conf.h))

TrailerPoster(poster, image_large, first_sample) ==
    IF poster = <<>> \/ (poster # DictValue /\ EndsWith(LowerSeq(poster), <<"j", "m", ".",
        "j", "p", "g">>))
    THEN IF image_large # <<>> THEN image_large
         ELSE IF Contains(LowerSeq(first_sample), <<"j", "p", "-">>) THEN first_sample
         ELSE <<>>
    ELSE poster

FanzaTrailerFields(it, t, conf) ==
    [trailer_url |-> t.trailer_url,
     trailer_embed |->
        TrailerEmbed(IF t.trailer_embed # <<>> THEN t.trailer_embed
                     ELSE BuildFanzaIframeSrc(it.cid, conf.affiliate_id,
                                              conf.w \o <<"_">> \o conf.h),
                     conf),
     trailer_poster |-> TrailerPoster(t.trailer_poster, it.image_large, it.first_sample)]

\* fanza_book.py:162-165
BookTrailerFields ==
    [trailer_url |-> <<>>, trailer_embed |-> <<>>, trailer_poster |-> <<>>]

\* pipeline.py:399-405
PlayerSize(row, conf) ==
    IF row.trailer_embed # <<>>
    THEN [row EXCEPT !.trailer_embed =
             Replace(row.trailer_embed, 1, <<"s", "i", "z", "e", "=", "1", "2", "8", "0",
                 "_", "7", "2", "0">>, SizeOf(conf.w, conf.h))]
    ELSE row

\* sanitize_trailer_fields(item)
SanitizeTrailerFields(row) ==
    IF IsDirect(row.trailer_url) THEN [row EXCEPT !.trailer_url = <<>>] ELSE row

\* the trailer values an item of the source API can carry
EmbedUrls ==
    {<<"/", "/", "d", ".", "j", "p", "/", "e", "/", "s", "i", "z", "e", "=", "5", "6", "0",
        "_", "3", "6", "0", "/">>, <<"/", "/", "d", ".", "j", "p", "/", "e", "/", "s", "i",
        "z", "e", "=", "1", "2", "8", "0", "_", "7", "2", "0", "/">>, <<"/", "/", "d", ".",
        "j", "p", "/", "a", "b", ".", "m", "p", "4">>}
MovieUrls == {<<"/", "/", "d", ".", "j", "p", "/", "a", "b", ".", "m", "p", "4">>, <<"/",
    "/", "d", ".", "j", "p", "/", "a", "b", ".", "M", "3", "U", "8", "?", "t", "=", "1">>}
PosterUrls == {<<"/", "/", "d", ".", "j", "p", "/", "a", "b", "j", "m", ".", "j", "p",
    "g">>, <<"/", "/", "d", ".", "j", "p", "/", "a", "b", ".", "m", "p", "4">>}

TrailerItems ==
    [trailer_url : MovieUrls \cup {<<>>},
     trailer_embed : EmbedUrls \cup {<<>>},
     embed_url : {<<>>, <<"/", "/", "d", ".", "j", "p", "/", "a", "b", ".", "m", "3", "u",
         "8", "?", "t", "=", "1">>},
     trailer_poster : PosterUrls \cup {<<>>},
     imageURL : BOOLEAN,
     cid : {<<>>, <<"a", "b">>},
     image_large : {<<>>, <<"/", "/", "d", ".", "j", "p", "/", "a", "b", "p", "l", ".", "j",
         "p", "g">>},
     first_sample : {<<>>, <<"/", "/", "d", ".", "j", "p", "/", "a", "b", "j", "p", "-",
         "1", ".", "j", "p", "g">>}]

\* config.py:12 and 18/37, AFFILIATE_ID and FANZA_IFRAME_SIZE of the .env
TrailerConfs == [affiliate_id : {<<>>, <<"a", "f">>}, w : {<<"6", "4", "0">>}, h : {<<"3",
    "6", "0">>}]

NoTrailer ==
    [pc |-> "none", provider |-> "fanza",
     conf |-> [affiliate_id |-> <<>>, w |-> <<>>, h |-> <<>>],
     raw |-> [trailer_url |-> <<>>, trailer_embed |-> <<>>, embed_url |-> <<>>,
              trailer_poster |-> <<>>, imageURL |-> FALSE, cid |-> <<>>,
              image_large |-> <<>>, first_sample |-> <<>>],
     row |-> BookTrailerFields]

\* row = _normalize(it)
TrlNormalize ==
    /\ trl.pc = "raw"
    /\ trl' = [trl EXCEPT !.pc = "row",
                          !.row = IF trl.provider = "fanza"
                                  THEN FanzaTrailerFields(trl.raw,
                                          ExtractTrailerFields(trl.raw), trl.conf)
                                  ELSE BookTrailerFields]
    /\ UNCHANGED <<wpVars, fileVars, pipeVars, flt, mir, img, gal, tm, cnt, skp, ftc, aff, prn>>

\* pipeline.py:399-405, videos only
TrlPlayerSize ==
    /\ trl.pc = "row"
    /\ trl' = [trl EXCEPT !.pc = "sized",
                          !.row = IF trl.provider = "fanza"
                                  THEN PlayerSize(trl.row, trl.conf) ELSE trl.row]
    /\ UNCHANGED <<wpVars, fileVars, pipeVars, flt, mir, img, gal, tm, cnt, skp, ftc, aff, prn>>

\* pipeline.py:412-414, videos only
TrlSanitize ==
    /\ trl.pc = "sized"
    /\ trl' = [trl EXCEPT !.pc = "clean",
                          !.row = IF trl.provider = "fanza"
                                  THEN SanitizeTrailerFields(trl.row) ELSE trl.row]
    /\ UNCHANGED <<wpVars, fileVars, pipeVars, flt, mir, img, gal, tm, cnt, skp, ftc, aff, prn>>

(***************************************************************************)
(* One call of _extract_sample_images on the URLs of an item.              *)
(***************************************************************************)
MaxUrls == 3

\* the sample URLs an item can list: two sizes of image 1 on one host, its
\* large size on another host, image 2, a jacket and a placeholder
GalleryUrls ==
    {<<"/", "/", "x", ".", "j", "p", "/", "a", "b", "j", "s", "-", "1", ".", "j", "p",
        "g">>, <<"/", "/", "x", ".", "j", "p", "/", "a", "b", "j", "p", "-", "1", ".", "j",
        "p", "g">>, <<"/", "/", "b", ".", "j", "p", "/", "a", "b", "j", "p", "-", "1", ".",
        "j", "p", "g">>,
     <<"/", "/", "x", ".", "j", "p", "/", "a", "b", "-", "2", ".", "j", "p", "g">>, <<"/",
         "/", "x", ".", "j", "p", "/", "a", "a", "p", "l", ".", "j", "p", "g">>, <<"/", "/",
         "x", ".", "j", "p", "/", "n", "o", "i", "m", "g", ".", "j", "p", "g">>}

NoGallery == [pc |-> "none", strings |-> <<>>, out |-> <<>>]

\* fanza.py:416, sample_images = _extract_sample_images(it)
GalExtract ==
    /\ gal.pc = "item"
    /\ gal' = [gal EXCEPT !.pc = "done", !.out = ExtractSampleImages(gal.strings)]
    /\ UNCHANGED <<wpVars, fileVars, pipeVars, flt, mir, img, trl, tm, cnt, skp, ftc, aff, prn>>

(***************************************************************************)
(* WPClient.ensure_tags / ensure_categories and _ensure_term against a     *)
(* remote that keeps one term per name (compared without case) in each     *)
(* taxonomy.  A term's id is its index.                                    *)
(***************************************************************************)
MaxNames == 2

Taxonomies == {"tags", "categories"}

\* wp_rest.py:47, per_page of the search
SearchPerPage == 100

\* wp_rest.py:66, the length an invalid name is cut to
SafeLen == 190

TermNames == {<<>>, <<"a">>, <<"A", " ">>, <<"b">>}
NameLists == UNION {[1..n -> TermNames] : n \in 0..MaxNames}

\* the names the remote may hold already, and its terms: one per name
\* compared without case
MaxTerms == 2
StoredNames == {<<"a">>, <<"A">>, <<"b">>}
TermLists ==
    {t \in UNION {[1..n -> StoredNames] : n \in 0..MaxTerms} :
        \A j, k \in 1..Len(t) : LowerSeq(t[j]) = LowerSeq(t[k]) => j = k}

\* how the remote treats one call: what the search gets (the list, no answer
\* after five 503, an error status) and what a POST of a new name does (the
\* term is created and returned, created behind a 503, not created behind a
\* 503, rejected)
Remotes ==
    {[get |-> "ok", post |-> "created"], [get |-> "ok", post |-> "created_503"],
     [get |-> "ok", post |-> "busy"], [get |-> "ok", post |-> "invalid"],
     [get |-> "none", post |-> "created"], [get |-> "raise", post |-> "created"]}

\* the terms of the search result: those whose name holds nm, the first 100
SearchTerms(terms, nm) ==
    LET hits == SelectSeq([k \in 1..Len(terms) |-> [id |-> k, name |-> terms[k]]],
                          LAMBDA t : Contains(LowerSeq(t.name), LowerSeq(nm)))
    IN SubSeq(hits, 1, IF Len(hits) < SearchPerPage THEN Len(hits) ELSE SearchPerPage)

\* wp_rest.py:48-51, the id of the first term of data with the name, 0 for none
FirstNamed(data, nm) ==
    IF \E k \in 1..Len(data) : LowerSeq(data[k].name) = LowerSeq(nm)
    THEN data[MinOf({k \in 1..Len(data) : LowerSeq(data[k].name) = LowerSeq(nm)})].id
    ELSE 0

\* the id of the term the remote holds for the name, 0 for none
TermId(terms, nm) ==
    IF \E k \in 1..Len(terms) : LowerSeq(terms[k]) = LowerSeq(nm)
    THEN CHOOSE k \in 1..Len(terms) : LowerSeq(terms[k]) = LowerSeq(nm)
    ELSE 0

\* a result of _ensure_term: the id (0 for None), whether it raised, the terms
\* of the remote afterwards, the POST requests sent, whether term_exists came
TermResult(id, raised, terms, posts_sent, exists) ==
    [id |-> id, raised |-> raised, terms |-> terms, posts_sent |-> posts_sent,
     exists |-> exists]

\* a mutant: term_exists is an error like any other
TermExists_Raises(terms, nm, sent) ==
    TermResult(0, TRUE, terms, sent, TRUE)

\* wp_rest.py:61-63, the answer 400 term_exists
TermExists(terms, nm, sent) ==
    TermResult(TermId(terms, nm), FALSE, terms, sent, TRUE)

\* wp_rest.py:54-72, the POST through _req: attempt i against a remote that
\* treats a new name as answer says
RECURSIVE CreateTerm(_, _, _, _)
CreateTerm(terms, nm, answer, i) ==
    IF i >= MaxAttempts THEN TermResult(0, FALSE, terms, i, FALSE)
    ELSE IF TermId(terms, nm) # 0 THEN TermExists(terms, nm, i + 1)
    ELSE IF answer = "created"
    THEN TermResult(Len(terms) + 1, FALSE, Append(terms, nm), i + 1, FALSE)
    ELSE IF answer = "created_503" THEN CreateTerm(Append(terms, nm), nm, answer, i + 1)
    ELSE IF answer = "busy" THEN CreateTerm(terms, nm, answer, i + 1)
    ELSE IF Len(nm) > SafeLen
    THEN TermResult(Len(terms) + 1, FALSE, Append(terms, SubSeq(nm, 1, SafeLen)),
                    i + 2, FALSE)
    ELSE TermResult(0, TRUE, terms, i + 1, FALSE)

\* _ensure_term(tax, name) against the terms of the taxonomy
EnsureTerm(terms, name, get, answer) ==
    IF Strip(name) = <<>> THEN TermResult(0, FALSE, terms, 0, FALSE)
    ELSE IF get = "raise" THEN TermResult(0, TRUE, terms, 0, FALSE)
    ELSE IF get = "ok" /\ FirstNamed(SearchTerms(terms, Strip(name)), Strip(name)) # 0
    THEN TermResult(FirstNamed(SearchTerms(terms, Strip(name)), Strip(name)),
                    FALSE, terms, 0, FALSE)
    ELSE CreateTerm(terms, Strip(name), answer, 0)

\* the locals of ensure_tags / ensure_categories before the loop
EnsureStart(terms) ==
    [ids |-> <<>>, raised |-> FALSE, terms |-> terms, posts_sent |-> 0,
     exists |-> FALSE]

\* wp_rest.py:78-84, one round of the loop: e is what the function holds so
\* far, t what _ensure_term returned
EnsureRound(e, t) ==
    [ids |-> IF ~t.raised /\ t.id # 0 /\ \A k \in 1..Len(e.ids) : e.ids[k] # t.id
             THEN Append(e.ids, t.id) ELSE e.ids,
     raised |-> t.raised,
     terms |-> t.terms,
     posts_sent |-> e.posts_sent + t.posts_sent,
     exists |-> e.exists \/ t.exists]

\* the round for name: nothing more happens once _ensure_term has raised
EnsureNext(e, name, get, answer) ==
    IF e.raised THEN e ELSE EnsureRound(e, EnsureTerm(e.terms, name, get, answer))

\* ensure_tags(names) / ensure_categories(names) after the first n names
RECURSIVE EnsureTerms(_, _, _, _, _)
EnsureTerms(terms, names, n, get, answer) ==
    IF n = 0 THEN EnsureStart(terms)
    ELSE EnsureNext(EnsureTerms(terms, names, n - 1, get, answer), names[n], get, answer)

NoTermCall ==
    [tax |-> "tags", names |-> <<>>, ids |-> <<>>, raised |-> FALSE,
     before |-> <<>>, posts_sent |-> 0, exists |-> FALSE, get |-> "ok",
     post |-> "created"]
NoTerms ==
    [terms |-> [tax \in Taxonomies |-> <<>>], call |-> NoTermCall,
     first |-> NoTermCall, calls |-> 0]

\* what a call of ensure_tags / ensure_categories leaves
Called(tax, names, remote, e) ==
    [terms |-> [tm.terms EXCEPT ![tax] = e.terms],
     call |-> [tax |-> tax, names |-> names, ids |-> e.ids, raised |-> e.raised,
               before |-> tm.terms[tax], posts_sent |-> e.posts_sent,
               exists |-> e.exists, get |-> remote.get, post |-> remote.post],
     first |-> tm.call,
     calls |-> tm.calls + 1]

\* one call of ensure_tags or ensure_categories
EnsureCall ==
    /\ tm.calls = 0
    /\ \E tax \in Taxonomies, names \in NameLists, remote \in Remotes :
          tm' = Called(tax, names, remote,
                       EnsureTerms(tm.terms[tax], names, Len(names), remote.get,
                                   remote.post))
    /\ UNCHANGED <<wpVars, fileVars, pipeVars, flt, mir, img, trl, gal, cnt, skp, ftc, aff, prn>>

\* the same call once more
EnsureAgain ==
    /\ tm.calls = 1
    /\ \E remote \in Remotes :
          tm' = Called(tm.call.tax, tm.call.names, remote,
                       EnsureTerms(tm.terms[tm.call.tax], tm.call.names,
                                   Len(tm.call.names), remote.get, remote.post))
    /\ UNCHANGED <<wpVars, fileVars, pipeVars, flt, mir, img, trl, gal, cnt, skp, ftc, aff, prn>>

(***************************************************************************)
(* ContentBuilder.render and the content options of the command:           *)
(* --content-template, --content-md-template, --prepend-html,              *)
(* --append-html and --content-hook.  A body is a sequence of pieces.       *)
(***************************************************************************)
\* markdown2.markdown(md_text)
Markdown(md_text) == <<"<p>">> \o md_text \o <<"</p>">>

\* what the templates render for a record
MdText == <<"md">>
TplHtml == <<Html>>

\* the hooks a command can name: none, one that wraps the body, one that
\* returns a body of its own
Hooks == {"none", "wrap", "own"}
CallHook(hook, final_html) ==
    CASE hook = "wrap" -> <<"<div>">> \o final_html \o <<"</div>">>
      [] hook = "own" -> <<"own">>
      [] OTHER -> final_html

\* ContentBuilder(template_path, md_template_path, prepend_html, append_html,
\* hook): the fields render reads
ContentBuilder(template, md_template, prepend_html, append_html, hook) ==
    [none |-> FALSE, template |-> template, md_template |-> md_template,
     prepend_html |-> prepend_html, append_html |-> append_html, hook |-> hook]

NoBuilder ==
    [none |-> TRUE, template |-> FALSE, md_template |-> FALSE,
     prepend_html |-> <<>>, append_html |-> <<>>, hook |-> "none"]

\* ContentBuilder.render(item)
Render(cb) ==
    LET html_parts == (IF cb.md_template THEN Markdown(MdText) ELSE <<>>)
                      \o (IF cb.template THEN TplHtml ELSE <<>>)
        final_html == cb.prepend_html \o html_parts \o cb.append_html
    IN IF cb.hook # "none" THEN CallHook(cb.hook, final_html) ELSE final_html

\* _init_content_builder(args): None when no content option is given
InitContentBuilder(args) ==
    IF args.template = "none" /\ ~args.md_template /\ args.prepend_html = <<>>
       /\ args.append_html = <<>> /\ args.hook = "none"
    THEN NoBuilder
    ELSE ContentBuilder(args.template # "none", args.md_template, args.prepend_html,
                        args.append_html, args.hook)

\* the content options of a command
ContentArgs ==
    [template : {"none", "missing", "present"}, md_template : BOOLEAN,
     prepend_html : {<<>>, <<"pre">>}, append_html : {<<>>, <<"app">>},
     hook : Hooks]

NoContent ==
    [pc |-> "start", args |-> CHOOSE a \in ContentArgs : TRUE,
     content_builder |-> NoBuilder, raised |-> FALSE, content |-> <<>>]

\* pipeline.py:326, content_builder = _init_content_builder(args)
CntInitBuilder ==
    /\ cnt.pc = "start"
    /\ cnt' = [cnt EXCEPT !.pc = "item",
                          !.content_builder = InitContentBuilder(cnt.args)]
    /\ UNCHANGED <<wpVars, fileVars, pipeVars, flt, mir, img, trl, gal, tm, skp, ftc, aff, prn>>

\* pipeline.py:431-463, the content block for one record: the template of
\* --content-template alone decides the body
CntBuildContent ==
    /\ cnt.pc = "item"
    /\ \E render \in {"ok", "fail"}, legacy \in {"ok", "fail"} :
          \E bc \in {BuildContent(cnt.args.template, render, legacy)} :
             cnt' = [cnt EXCEPT !.pc = IF bc.raised THEN "raised" ELSE "sink",
                                !.raised = bc.raised,
                                !.content = bc.content]
    /\ UNCHANGED <<wpVars, fileVars, pipeVars, flt, mir, img, trl, gal, tm, skp, ftc, aff, prn>>

(***************************************************************************)
(* The two builders of the skip set over one CSV file with a given header. *)
(***************************************************************************)
MaxCols == 2

ColumnNames ==
    {"cid", "CID", "Cid", "content_id", "Content_ID", "ContentID", "contentId", "URL"}
Headers == UNION {[1..n -> ColumnNames] : n \in 1..MaxCols}

\* a file with the header and one data row; the cell of column k is k letters
CsvOf(header) == <<header, [k \in 1..Len(header) |-> [j \in 1..k |-> "x"]]>>
SkipCsv == Path("out", "items", "csv")
SkipDisk(header) == [p \in {SkipCsv} |-> CsvOf(header)]

NoSkip == [header |-> <<"cid">>, colname |-> "cid", done |-> {}, ids |-> {}, in_dir |-> {}]

\* load_skip_cids("out/items.csv", colname)
SkpLoad ==
    /\ "path" \notin skp.done
    /\ skp' = [skp EXCEPT !.done = @ \cup {"path"},
                          !.ids = LoadSkipCids(SkipDisk(skp.header), {SkipCsv},
                                               skp.colname)]
    /\ UNCHANGED <<wpVars, fileVars, pipeVars, flt, mir, img, trl, gal, tm, cnt, ftc, aff, prn>>

\* load_skip_cids_in_dir("out")
SkpLoadInDir ==
    /\ "dir" \notin skp.done
    /\ skp' = [skp EXCEPT !.done = @ \cup {"dir"},
                          !.in_dir = LoadSkipCidsInDir(SkipDisk(skp.header), "out")]
    /\ UNCHANGED <<wpVars, fileVars, pipeVars, flt, mir, img, trl, gal, tm, cnt, ftc, aff, prn>>

(***************************************************************************)
(* The fetch loop of run_pipeline against a source that answers each fetch *)
(* as it likes: any number of items, any total_count, or an error status.  *)
(***************************************************************************)
MaxMax == 3
MaxPage == 2
MaxTotal == 4
MaxTarget == 2

NoFetch ==
    [pc |-> "while", max |-> 1, target_new |-> 0, got |-> 0, offset |-> 1,
     new_count |-> 0, items |-> 0, total |-> 0, last |-> "none", ended |-> "none"]

\* pipeline.py:363, the while condition
FetchCondition(f) ==
    f.got < f.max /\ (f.target_new = 0 \/ f.new_count < f.target_new)

\* a mutant: the counts stay as they are
Counted_Nothing(f, n) == f

\* pipeline.py:634-635, got += len(items); offset += len(items)
Counted(f, n) == [f EXCEPT !.got = f.got + n, !.offset = f.offset + n]

\* pipeline.py:363, the test of the while condition
FtcWhile ==
    /\ ftc.pc = "while"
    /\ ftc' = IF FetchCondition(ftc)
              THEN [ftc EXCEPT !.pc = "fetch"]
              ELSE [ftc EXCEPT !.pc = "done",
                               !.ended = IF ftc.got >= ftc.max THEN "max" ELSE "target"]
    /\ UNCHANGED <<wpVars, fileVars, pipeVars, flt, mir, img, trl, gal, tm, cnt, skp, aff, prn>>

\* pipeline.py:364-368, _fetch and the test of the page: the source answers
\* with an error status (fetch_items raises), with no items (break), or with n
\* items and a total_count
FtcFetch ==
    /\ ftc.pc = "fetch"
    /\ \/ ftc' = [ftc EXCEPT !.pc = "raised", !.ended = "fetch_error"]
       \/ \E n \in 0..MaxPage, total \in 0..MaxTotal :
             ftc' = IF n = 0
                    THEN [ftc EXCEPT !.pc = "done", !.ended = "empty", !.last = "fetch",
                                     !.items = 0, !.total = total]
                    ELSE [ftc EXCEPT !.pc = "items", !.last = "fetch", !.items = n,
                                     !.total = total]
    /\ UNCHANGED <<wpVars, fileVars, pipeVars, flt, mir, img, trl, gal, tm, cnt, skp, aff, prn>>

\* pipeline.py:377-639, the items of the page and the end of the round: k of
\* the items count as new, or one of them raises what nothing catches; then the
\* counts, the test of the total, and the sleep
FtcPage ==
    /\ ftc.pc = "items"
    /\ \/ ftc' = [ftc EXCEPT !.pc = "raised", !.ended = "item_error"]
       \/ \E k \in 0..ftc.items :
             /\ ftc.target_new = 0 => k = 0
             /\ \E f \in {Counted([ftc EXCEPT !.new_count = @ + k], ftc.items)} :
                   ftc' = IF f.offset > f.total
                          THEN [f EXCEPT !.pc = "done", !.ended = "total"]
                          ELSE [f EXCEPT !.pc = "while", !.last = "sleep"]
    /\ UNCHANGED <<wpVars, fileVars, pipeVars, flt, mir, img, trl, gal, tm, cnt, skp, aff, prn>>

\* the posting command with --no-update-existing: one page of MaxItems items,
\* or pages of one item with max = 1
NoUpdateCfgs ==
    {[PlainCfg(TRUE) EXCEPT !.noUpdate = TRUE, !.hits = pg.hits, !.max = pg.max] :
        pg \in Paging}

(***************************************************************************)
(* make_aff_url (app/core/config.py): unwrap the al.* redirects of a URL   *)
(* and wrap the result once.  The URLs are made of letters, digits,        *)
(* ". - _" and the characters of PctCodes.                                 *)
(***************************************************************************)
MaxWraps == 1

\* config.py:59, max_hops
MaxHops == 5

\* config.py:13, the default of AFFILIATE_REDIRECT
AffiliateRedirect == <<"h", "t", "t", "p", "s", ":", "/", "/", "a", "l", ".", "d", "m", "m",
    ".", "c", "o", "m">>

\* config.py:21
RedirectHosts == {<<"a", "l", ".", "d", "m", "m", ".", "c", "o", "m">>, <<"a", "l", ".",
    "f", "a", "n", "z", "a", ".", "c", "o", ".", "j", "p">>, <<"a", "l", ".", "d", "m", "m",
    ".", "c", "o", ".", "j", "p">>}

\* the characters quote(s, safe='') escapes, with their two hex digits
PctCodes ==
    [c \in {":", "/", "?", "=", "&", "%", " ", "+"} |->
        CASE c = ":" -> <<"3", "A">> [] c = "/" -> <<"2", "F">> [] c = "?" -> <<"3", "F">>
          [] c = "=" -> <<"3", "D">> [] c = "&" -> <<"2", "6">> [] c = "%" -> <<"2", "5">>
          [] c = " " -> <<"2", "0">> [] c = "+" -> <<"2", "B">>]

\* urllib.parse.quote(s, safe=''), half by half
RECURSIVE Quote(_)
Quote(s) ==
    IF s = <<>> THEN <<>>
    ELSE IF Len(s) = 1
    THEN IF s[1] \in DOMAIN PctCodes THEN <<"%">> \o PctCodes[s[1]] ELSE s
    ELSE Quote(SubSeq(s, 1, Len(s) \div 2)) \o Quote(From(s, Len(s) \div 2 + 1))

\* the character the two hex digits stand for, "" when they are no code
Decoded(hex) ==
    IF \E c \in DOMAIN PctCodes : PctCodes[c] = hex
    THEN CHOOSE c \in DOMAIN PctCodes : PctCodes[c] = hex
    ELSE ""

\* a "%" of s with the two digits of a code behind it
EscapeAt(s, i) ==
    i >= 1 /\ i + 2 <= Len(s) /\ s[i] = "%" /\ Decoded(SubSeq(s, i + 1, i + 2)) # ""

\* urllib.parse.unquote(s): every %XX becomes its character, once
Unquote(s) ==
    SelectSeq([i \in 1..Len(s) |->
                 IF EscapeAt(s, i) THEN Decoded(SubSeq(s, i + 1, i + 2))
                 ELSE IF EscapeAt(s, i - 1) \/ EscapeAt(s, i - 2) THEN ""
                 ELSE s[i]],
              LAMBDA c : c # "")

\* the position of the first character of s that is in cs, Len(s) + 1 for none
FirstOfChars(s, cs) ==
    IF \E i \in 1..Len(s) : s[i] \in cs
    THEN MinOf({i \in 1..Len(s) : s[i] \in cs})
    ELSE Len(s) + 1

\* urlparse(url): what follows the scheme and its colon
AfterScheme(url) ==
    LET p == FirstOfChars(url, {":"})
    IN IF p > 1 /\ p <= Len(url)
          /\ \A i \in 1..(p - 1) : url[i] \notin DOMAIN PctCodes \cup {"."}
       THEN From(url, p + 1)
       ELSE url

\* urlparse(url).netloc
Netloc(url) ==
    LET rest == AfterScheme(url)
    IN IF StartsWith(rest, <<"/", "/">>)
       THEN SubSeq(rest, 3, FirstOfChars(From(rest, 3), {"/", "?", "#"}) + 1)
       ELSE <<>>

\* urlparse(url).query
Query(url) ==
    LET rest == AfterScheme(url)
        q == FirstOfChars(rest, {"?"})
    IN IF q > Len(rest) THEN <<>> ELSE From(rest, q + 1)

\* the fields of a query, split at "&"
RECURSIVE SplitAmp(_)
SplitAmp(s) ==
    LET p == FirstOfChars(s, {"&"})
    IN IF p > Len(s) THEN <<s>> ELSE <<SubSeq(s, 1, p - 1)>> \o SplitAmp(From(s, p + 1))

\* parse_qs decoding of a name or value: "+" is a blank, then unquote
QsDecode(s) == Unquote([i \in 1..Len(s) |-> IF s[i] = "+" THEN " " ELSE s[i]])

\* parse_qs(query).get(name, []): the values of the fields name=value with a
\* value that is not blank, decoded
QsValues(query, name) ==
    LET fields == SplitAmp(query)
        hits == SelectSeq(fields, LAMBDA f :
                   /\ FirstOfChars(f, {"="}) < Len(f)
                   /\ QsDecode(SubSeq(f, 1, FirstOfChars(f, {"="}) - 1)) = name)
    IN [k \in 1..Len(hits) |-> QsDecode(From(hits[k], FirstOfChars(hits[k], {"="}) + 1))]

\* _is_aff_redirect(url)
IsAffRedirect(url) ==
    \E h \in RedirectHosts : EndsWith(LowerSeq(Netloc(url)), h)

\* _extract_lurl(url), <<>> for None: unquote of the value parse_qs decoded
ExtractLurl(url) ==
    LET vals == QsValues(Query(url), <<"l", "u", "r", "l">>)
    IN IF vals # <<>> THEN Unquote(vals[1]) ELSE <<>>

\* _unwrap_aff_url(url), the loop from hops on
RECURSIVE UnwrapFrom(_, _)
UnwrapFrom(inner, hops) ==
    IF IsAffRedirect(inner) /\ hops < MaxHops
    THEN IF ExtractLurl(inner) = <<>> THEN inner
         ELSE UnwrapFrom(ExtractLurl(inner), hops + 1)
    ELSE inner

UnwrapAffUrl(url) == UnwrapFrom(url, 0)

\* the wrapper around final for an affiliate id and a channel
WrapAff(final, affiliate_id, ch) ==
    AffiliateRedirect \o <<"/", "?", "l", "u", "r", "l", "=">> \o Quote(final) \o <<"&",
        "a", "f", "_", "i", "d", "=">> \o affiliate_id
        \o (IF ch # <<>> THEN <<"&", "c", "h", "=">> \o Quote(ch) ELSE <<>>)

\* make_aff_url(base) under a configuration
MakeAffUrl(base, conf) ==
    IF base = <<>> THEN <<>>
    ELSE IF conf.affiliate_id # <<>>
    THEN WrapAff(UnwrapAffUrl(base), conf.affiliate_id, conf.ch)
    ELSE base

\* the plain URLs of the model: a product page, one with a query, one whose
\* path holds an escaped blank or a plus sign, a redirect host without lurl
PlainUrls ==
    {<<>>, <<"h", "t", "t", "p", "s", ":", "/", "/", "v", ".", "j", "p", "/", "a">>, <<"h",
        "t", "t", "p", "s", ":", "/", "/", "v", ".", "j", "p", "/", "?", "q", "=", "1", "&",
        "r", "=", "2">>, <<"h", "t", "t", "p", "s", ":", "/", "/", "v", ".", "j", "p", "/",
        "a", "%", "2", "0", "b">>,
     <<"h", "t", "t", "p", "s", ":", "/", "/", "v", ".", "j", "p", "/", "a", "+",
         "b">>, <<"h", "t", "t", "p", "s", ":", "/", "/", "a", "l", ".", "d", "m", "m", ".",
         "c", "o", "m", "/", "x">>}

\* the URLs wrapped up to n times by others
RECURSIVE WrappedUrls(_)
WrappedUrls(n) ==
    IF n = 0 THEN PlainUrls
    ELSE WrappedUrls(n - 1)
         \cup {WrapAff(u, <<"o">>, ch) : u \in WrappedUrls(n - 1) \ {<<>>}, ch \in {<<>>, <<"c">>}}

AffConfs == [affiliate_id : {<<>>, <<"m", "e">>}, ch : {<<>>, <<"c">>}]

NoAff ==
    [pc |-> "base", base |-> <<>>, conf |-> [affiliate_id |-> <<>>, ch |-> <<>>],
     once |-> <<>>, twice |-> <<>>]

\* fanza_book.py:127, url = make_aff_url(prod.get("URL") or "")
AffMake ==
    /\ aff.pc = "base"
    /\ aff' = [aff EXCEPT !.pc = "once", !.once = MakeAffUrl(aff.base, aff.conf)]
    /\ UNCHANGED <<wpVars, fileVars, pipeVars, flt, mir, img, trl, gal, tm, cnt, skp, ftc, prn>>

\* fanza_book.py:166, row["aff_url"] = make_aff_url(row["URL"])
AffMakeAgain ==
    /\ aff.pc = "once"
    /\ aff' = [aff EXCEPT !.pc = "twice", !.twice = MakeAffUrl(aff.once, aff.conf)]
    /\ UNCHANGED <<wpVars, fileVars, pipeVars, flt, mir, img, trl, gal, tm, cnt, skp, ftc, prn>>

(***************************************************************************)
(* ProcessRunner (fanza_scraper_desktop.py): the window's thread calls run *)
(* and kill, the reader thread runs _pump, the child writes its lines into *)
(* a pipe of bounded capacity.                                             *)
(***************************************************************************)
MaxLines == 3
PipeCap == 1
MaxStarts == 2

\* proc: whether self.proc is set; child: the child process; todo: the lines
\* the child has still to write; pipe: the lines in the pipe; pump: where the
\* reader thread is; stop: the event _stop
NoRunner ==
    [proc |-> FALSE, child |-> "none", todo |-> 0, pipe |-> 0, pump |-> "none",
     stop |-> FALSE, starts |-> 0, lines |-> 0, delivered |-> 0, exits |-> 0,
     killed |-> FALSE, kills |-> 0]

\* ProcessRunner.run(cmd): raises when a process is set, else starts a child
\* that will write n lines, and the reader thread
PrRun ==
    /\ prn.starts < MaxStarts
    /\ ~prn.proc
    /\ \E n \in 0..MaxLines :
          prn' = [prn EXCEPT !.proc = TRUE, !.child = "running", !.todo = n,
                             !.pipe = 0, !.pump = "read", !.starts = prn.starts + 1,
                             !.lines = n, !.delivered = 0, !.killed = FALSE]
    /\ UNCHANGED <<wpVars, fileVars, pipeVars, flt, mir, img, trl, gal, tm, cnt, skp, ftc,
                   aff>>

\* ProcessRunner.kill(): the child is killed when it runs; _stop is set
PrKill ==
    /\ prn.kills < MaxStarts
    /\ prn' = [prn EXCEPT !.child = IF prn.proc /\ prn.child = "running"
                                    THEN "exited" ELSE prn.child,
                          !.todo = IF prn.proc /\ prn.child = "running" THEN 0
                                   ELSE prn.todo,
                          !.killed = prn.proc,
                          !.stop = TRUE,
                          !.kills = prn.kills + 1]
    /\ UNCHANGED <<wpVars, fileVars, pipeVars, flt, mir, img, trl, gal, tm, cnt, skp, ftc,
                   aff>>

\* the child writes a line; it waits while the pipe is full
ChildWrite ==
    /\ prn.child = "running" /\ prn.todo > 0 /\ prn.pipe < PipeCap
    /\ prn' = [prn EXCEPT !.todo = prn.todo - 1, !.pipe = prn.pipe + 1]
    /\ UNCHANGED <<wpVars, fileVars, pipeVars, flt, mir, img, trl, gal, tm, cnt, skp, ftc,
                   aff>>

\* the child has written everything and exits
ChildExit ==
    /\ prn.child = "running" /\ prn.todo = 0
    /\ prn' = [prn EXCEPT !.child = "exited"]
    /\ UNCHANGED <<wpVars, fileVars, pipeVars, flt, mir, img, trl, gal, tm, cnt, skp, ftc,
                   aff>>

\* _pump, one round of "for line in self.proc.stdout": a line is there, and
\* it is passed to on_line unless _stop is set (break)
PumpLine ==
    /\ prn.pump = "read" /\ prn.pipe > 0
    /\ prn' = IF prn.stop
              THEN [prn EXCEPT !.pipe = prn.pipe - 1, !.pump = "wait"]
              ELSE [prn EXCEPT !.pipe = prn.pipe - 1, !.delivered = prn.delivered + 1]
    /\ UNCHANGED <<wpVars, fileVars, pipeVars, flt, mir, img, trl, gal, tm, cnt, skp, ftc,
                   aff>>

\* _pump: the end of the child's output ends the for loop
PumpEof ==
    /\ prn.pump = "read" /\ prn.pipe = 0 /\ prn.child = "exited"
    /\ prn' = [prn EXCEPT !.pump = "wait"]
    /\ UNCHANGED <<wpVars, fileVars, pipeVars, flt, mir, img, trl, gal, tm, cnt, skp, ftc,
                   aff>>

\* _pump, the finally block: proc.wait() returns once the child has exited;
\* on_exit, then proc and thread are cleared
PumpExit ==
    /\ prn.pump = "wait" /\ prn.child = "exited"
    /\ prn' = [prn EXCEPT !.pump = "none", !.proc = FALSE, !.child = "none",
                          !.pipe = 0, !.exits = prn.exits + 1]
    /\ UNCHANGED <<wpVars, fileVars, pipeVars, flt, mir, img, trl, gal, tm, cnt, skp, ftc,
                   aff>>

InitReq ==
    /\ req = ReqIdle
    /\ posts = <<>>
    /\ lastCall = NoCall
    /\ prevCall = NoPrev
    /\ disk = NoFiles
    /\ ledLog = <<>>
    /\ cfg = CHOOSE c \in PipeCfgs : TRUE
    /\ src = <<>>
    /\ run = NoRun
    /\ item = NoItem
    /\ hist = <<>>
    /\ flt = NoFilter
    /\ mir = NoMirror
    /\ img = NoImages
    /\ trl = NoTrailer
    /\ gal = NoGallery
    /\ tm = NoTerms
    /\ cnt = NoContent
    /\ skp = NoSkip
    /\ ftc = NoFetch
    /\ aff = NoAff
    /\ prn = NoRunner

NextReq == ReqBegin \/ ReqRespond

SpecReq == InitReq /\ [][NextReq]_vars

InitWP == InitReq

NextWP == Call

SpecWP == InitWP /\ [][NextWP]_vars

InitLedger == InitReq

NextLedger == Append_ledger

InitPipe ==
    /\ req = ReqIdle
    /\ posts = <<>>
    /\ lastCall = NoCall
    /\ prevCall = NoPrev
    /\ disk = NoFiles
    /\ ledLog = <<>>
    /\ cfg \in PipeCfgs
    /\ src \in Sources
    /\ run = NoRun
    /\ item = NoItem
    /\ hist = <<>>
    /\ flt = NoFilter
    /\ mir = NoMirror
    /\ img = NoImages
    /\ trl = NoTrailer
    /\ gal = NoGallery
    /\ tm = NoTerms
    /\ cnt = NoContent
    /\ skp = NoSkip
    /\ ftc = NoFetch
    /\ aff = NoAff
    /\ prn = NoRunner

NextPipe ==
    StartRun \/ LoopExit \/ FetchEmpty \/ FetchPage \/ ProcessItem \/ PageEnd \/ Finish

SpecPipe == InitPipe /\ [][NextPipe]_vars

SpecLedger == InitLedger /\ [][NextLedger]_vars

InitFilter ==
    /\ req = ReqIdle
    /\ posts = <<>>
    /\ lastCall = NoCall
    /\ prevCall = NoPrev
    /\ disk = NoFiles
    /\ ledLog = <<>>
    /\ cfg = CHOOSE c \in PipeCfgs : TRUE
    /\ src = <<>>
    /\ run = NoRun
    /\ item = NoItem
    /\ hist = <<>>
    /\ flt \in {[NoFilter EXCEPT !.rows = rs] : rs \in FilterRowSeqs}
    /\ mir = NoMirror
    /\ img = NoImages
    /\ trl = NoTrailer
    /\ gal = NoGallery
    /\ tm = NoTerms
    /\ cnt = NoContent
    /\ skp = NoSkip
    /\ ftc = NoFetch
    /\ aff = NoAff
    /\ prn = NoRunner

NextFilter == AddPattern \/ ApplyFiltersCall

SpecFilter == InitFilter /\ [][NextFilter]_vars

InitMirror == InitReq

NextMirror == MirrorBegin \/ MirrorPoster \/ MirrorSample \/ MirrorEnd

SpecMirror == InitMirror /\ [][NextMirror]_vars

InitImages ==
    /\ req = ReqIdle
    /\ posts = <<>>
    /\ lastCall = NoCall
    /\ prevCall = NoPrev
    /\ disk = NoFiles
    /\ ledLog = <<>>
    /\ cfg = CHOOSE c \in PipeCfgs : TRUE
    /\ src = <<>>
    /\ run = NoRun
    /\ item = NoItem
    /\ hist = <<>>
    /\ flt = NoFilter
    /\ mir = NoMirror
    /\ img \in {[NoImages EXCEPT !.pc = "raw", !.provider = p, !.args = a, !.raw = it] :
                   p \in Providers, a \in ImageArgs, it \in ApiItems}
    /\ trl = NoTrailer
    /\ gal = NoGallery
    /\ tm = NoTerms
    /\ cnt = NoContent
    /\ skp = NoSkip
    /\ ftc = NoFetch
    /\ aff = NoAff
    /\ prn = NoRunner

NextImages == ImgNormalize \/ ImgFilterAndEnhance

SpecImages == InitImages /\ [][NextImages]_vars

InitTrailer ==
    /\ req = ReqIdle
    /\ posts = <<>>
    /\ lastCall = NoCall
    /\ prevCall = NoPrev
    /\ disk = NoFiles
    /\ ledLog = <<>>
    /\ cfg = CHOOSE c \in PipeCfgs : TRUE
    /\ src = <<>>
    /\ run = NoRun
    /\ item = NoItem
    /\ hist = <<>>
    /\ flt = NoFilter
    /\ mir = NoMirror
    /\ img = NoImages
    /\ trl \in {[NoTrailer EXCEPT !.pc = "raw", !.provider = p, !.conf = c, !.raw = it] :
                   p \in Providers, c \in TrailerConfs, it \in TrailerItems}
    /\ gal = NoGallery
    /\ tm = NoTerms
    /\ cnt = NoContent
    /\ skp = NoSkip
    /\ ftc = NoFetch
    /\ aff = NoAff
    /\ prn = NoRunner

NextTrailer == TrlNormalize \/ TrlPlayerSize \/ TrlSanitize

SpecTrailer == InitTrailer /\ [][NextTrailer]_vars

InitGallery ==
    /\ req = ReqIdle
    /\ posts = <<>>
    /\ lastCall = NoCall
    /\ prevCall = NoPrev
    /\ disk = NoFiles
    /\ ledLog = <<>>
    /\ cfg = CHOOSE c \in PipeCfgs : TRUE
    /\ src = <<>>
    /\ run = NoRun
    /\ item = NoItem
    /\ hist = <<>>
    /\ flt = NoFilter
    /\ mir = NoMirror
    /\ img = NoImages
    /\ trl = NoTrailer
    /\ gal \in {[NoGallery EXCEPT !.pc = "item", !.strings = strings] :
                   strings \in UNION {[1..n -> GalleryUrls] : n \in 0..MaxUrls}}
    /\ tm = NoTerms
    /\ cnt = NoContent
    /\ skp = NoSkip
    /\ ftc = NoFetch
    /\ aff = NoAff
    /\ prn = NoRunner

NextGallery == GalExtract

SpecGallery == InitGallery /\ [][NextGallery]_vars

InitTerms ==
    /\ req = ReqIdle
    /\ posts = <<>>
    /\ lastCall = NoCall
    /\ prevCall = NoPrev
    /\ disk = NoFiles
    /\ ledLog = <<>>
    /\ cfg = CHOOSE c \in PipeCfgs : TRUE
    /\ src = <<>>
    /\ run = NoRun
    /\ item = NoItem
    /\ hist = <<>>
    /\ flt = NoFilter
    /\ mir = NoMirror
    /\ img = NoImages
    /\ trl = NoTrailer
    /\ gal = NoGallery
    /\ tm \in {[NoTerms EXCEPT !.terms = [tax \in Taxonomies |-> t]] : t \in TermLists}
    /\ cnt = NoContent
    /\ skp = NoSkip
    /\ ftc = NoFetch
    /\ aff = NoAff
    /\ prn = NoRunner

NextTerms == EnsureCall \/ EnsureAgain

SpecTerms == InitTerms /\ [][NextTerms]_vars

InitContent ==
    /\ req = ReqIdle
    /\ posts = <<>>
    /\ lastCall = NoCall
    /\ prevCall = NoPrev
    /\ disk = NoFiles
    /\ ledLog = <<>>
    /\ cfg = CHOOSE c \in PipeCfgs : TRUE
    /\ src = <<>>
    /\ run = NoRun
    /\ item = NoItem
    /\ hist = <<>>
    /\ flt = NoFilter
    /\ mir = NoMirror
    /\ img = NoImages
    /\ trl = NoTrailer
    /\ gal = NoGallery
    /\ tm = NoTerms
    /\ cnt \in {[NoContent EXCEPT !.args = a] : a \in ContentArgs}
    /\ skp = NoSkip
    /\ ftc = NoFetch
    /\ aff = NoAff
    /\ prn = NoRunner

NextContent == CntInitBuilder \/ CntBuildContent

SpecContent == InitContent /\ [][NextContent]_vars

InitSkip ==
    /\ req = ReqIdle
    /\ posts = <<>>
    /\ lastCall = NoCall
    /\ prevCall = NoPrev
    /\ disk = NoFiles
    /\ ledLog = <<>>
    /\ cfg = CHOOSE c \in PipeCfgs : TRUE
    /\ src = <<>>
    /\ run = NoRun
    /\ item = NoItem
    /\ hist = <<>>
    /\ flt = NoFilter
    /\ mir = NoMirror
    /\ img = NoImages
    /\ trl = NoTrailer
    /\ gal = NoGallery
    /\ tm = NoTerms
    /\ cnt = NoContent
    /\ skp \in {[NoSkip EXCEPT !.header = h, !.colname = c] :
                  h \in Headers, c \in {"cid", "content_id"}}
    /\ ftc = NoFetch
    /\ aff = NoAff
    /\ prn = NoRunner

NextSkip == SkpLoad \/ SkpLoadInDir

SpecSkip == InitSkip /\ [][NextSkip]_vars

InitFetch ==
    /\ req = ReqIdle
    /\ posts = <<>>
    /\ lastCall = NoCall
    /\ prevCall = NoPrev
    /\ disk = NoFiles
    /\ ledLog = <<>>
    /\ cfg = CHOOSE c \in PipeCfgs : TRUE
    /\ src = <<>>
    /\ run = NoRun
    /\ item = NoItem
    /\ hist = <<>>
    /\ flt = NoFilter
    /\ mir = NoMirror
    /\ img = NoImages
    /\ trl = NoTrailer
    /\ gal = NoGallery
    /\ tm = NoTerms
    /\ cnt = NoContent
    /\ skp = NoSkip
    /\ ftc \in {[NoFetch EXCEPT !.max = m, !.target_new = t] :
                  m \in 0..MaxMax, t \in 0..MaxTarget}
    /\ aff = NoAff
    /\ prn = NoRunner

NextFetch == FtcWhile \/ FtcFetch \/ FtcPage

SpecFetch == InitFetch /\ [][NextFetch]_vars

\* the loop is sequential code and each of its calls returns or raises (the
\* requests have timeouts): a step that can be taken is taken
SpecFetchFair == SpecFetch /\ WF_vars(NextFetch)

InitNoUpdate ==
    /\ req = ReqIdle
    /\ posts = <<>>
    /\ lastCall = NoCall
    /\ prevCall = NoPrev
    /\ disk = NoFiles
    /\ ledLog = <<>>
    /\ cfg \in NoUpdateCfgs
    /\ src \in Sources
    /\ run = NoRun
    /\ item = NoItem
    /\ hist = <<>>
    /\ flt = NoFilter
    /\ mir = NoMirror
    /\ img = NoImages
    /\ trl = NoTrailer
    /\ gal = NoGallery
    /\ tm = NoTerms
    /\ cnt = NoContent
    /\ skp = NoSkip
    /\ ftc = NoFetch
    /\ aff = NoAff
    /\ prn = NoRunner

SpecNoUpdate == InitNoUpdate /\ [][NextPipe]_vars

InitAff ==
    /\ req = ReqIdle
    /\ posts = <<>>
    /\ lastCall = NoCall
    /\ prevCall = NoPrev
    /\ disk = NoFiles
    /\ ledLog = <<>>
    /\ cfg = CHOOSE c \in PipeCfgs : TRUE
    /\ src = <<>>
    /\ run = NoRun
    /\ item = NoItem
    /\ hist = <<>>
    /\ flt = NoFilter
    /\ mir = NoMirror
    /\ img = NoImages
    /\ trl = NoTrailer
    /\ gal = NoGallery
    /\ tm = NoTerms
    /\ cnt = NoContent
    /\ skp = NoSkip
    /\ ftc = NoFetch
    /\ aff \in {[NoAff EXCEPT !.base = u, !.conf = c] :
                  u \in WrappedUrls(MaxWraps), c \in AffConfs}
    /\ prn = NoRunner

NextAff == AffMake \/ AffMakeAgain

SpecAff == InitAff /\ [][NextAff]_vars

InitRunner ==
    /\ req = ReqIdle
    /\ posts = <<>>
    /\ lastCall = NoCall
    /\ prevCall = NoPrev
    /\ disk = NoFiles
    /\ ledLog = <<>>
    /\ cfg = CHOOSE c \in PipeCfgs : TRUE
    /\ src = <<>>
    /\ run = NoRun
    /\ item = NoItem
    /\ hist = <<>>
    /\ flt = NoFilter
    /\ mir = NoMirror
    /\ img = NoImages
    /\ trl = NoTrailer
    /\ gal = NoGallery
    /\ tm = NoTerms
    /\ cnt = NoContent
    /\ skp = NoSkip
    /\ ftc = NoFetch
    /\ aff = NoAff
    /\ prn = NoRunner

NextRunner ==
    PrRun \/ PrKill \/ ChildWrite \/ ChildExit \/ PumpLine \/ PumpEof \/ PumpExit

SpecRunner == InitRunner /\ [][NextRunner]_vars

\* the child and the reader thread go on whenever they can; the window's
\* thread calls run and kill when the user asks for it
SpecRunnerFair ==
    /\ SpecRunner
    /\ WF_vars(ChildWrite) /\ WF_vars(ChildExit)
    /\ WF_vars(PumpLine) /\ WF_vars(PumpEof) /\ WF_vars(PumpExit)

Spec == SpecReq

\* the number of posts of the site that carry external id e
CountPosts(ps, e) == Cardinality({k \in 1..Len(ps) : ps[k].eid = e})

(***************************************************************************)
(* Claims about the publish client.                                        *)
(***************************************************************************)
\* an external id that is a product code: not empty, no blanks around it
ProperId(e) == e # <<>> /\ Strip(e) = e

\* C1: whatever create_or_update_post calls were made, transient answers
\* included, the site holds at most one post per external id (read for ids that
\* are product codes; any wider reading fails all the more).
C1_AtMostOnePostPerId ==
    \A e \in ExtIds : ProperId(e) => CountPosts(posts, e) <= 1

\* two calls in a row with the same id, every request answered 200, the first
\* of which created the post
TwoCleanCalls ==
    /\ prevCall # NoPrev
    /\ prevCall.eid = lastCall.eid
    /\ lastCall.clean
    /\ ~lastCall.raised

OnePostWithLatestFields ==
    /\ CountPosts(posts, lastCall.eid) = 1
    /\ lastCall.id = prevCall.id
    /\ ~lastCall.created
    /\ posts[lastCall.id] = [eid |-> lastCall.eid, title |-> lastCall.title]

\* C2 as stated: two successful calls in sequence with the same external id,
\* whatever the id, leave exactly one post, updated by the second call.
C2_TwoCallsOnePost == TwoCleanCalls => OnePostWithLatestFields

\* C2: two successful calls in sequence with the same external id, the id being
\* non-empty and without surrounding blanks, leave exactly one post for the id:
\* the second call updates the post the first created, which then carries the
\* second call's title.
C2_TwoCallsOnePostProperId ==
    (TwoCleanCalls /\ ProperId(lastCall.eid)) => OnePostWithLatestFields

C2_Witness ==
    /\ TwoCleanCalls
    /\ ProperId(lastCall.eid)
    /\ lastCall.id = prevCall.id
    /\ posts[lastCall.id].title = "T2"
    /\ Len(posts) = 2

ReqReturned == req.outcome \in {"ok", "none", "raise"}

\* C3: a _req whose every attempt was answered with a transient status and
\* whose attempts are used up ends in an error; _req never returns normally for
\* a request whose last answer was not a success.
C3_ExhaustedRequestRaises ==
    /\ (/\ ReqReturned
        /\ req.sent = MaxAttempts
        /\ \A k \in 1..Len(req.statuses) : req.statuses[k] \in Transient)
       => req.outcome = "raise"
    /\ (ReqReturned /\ req.statuses[Len(req.statuses)] >= 400)
       => req.outcome = "raise"

\* C4: one _req sends at most 5 requests; every request but the last was
\* answered with a transient status and followed by a sleep of 1.5 s times its
\* attempt number; a non-transient error status raises at once, with no retry.
C4_BoundedLinearRetry ==
    /\ req.sent <= 5
    /\ req.sent = Len(req.statuses)
    /\ \A k \in 1..(req.sent - 1) :
          /\ req.statuses[k] \in Transient
          /\ Len(req.waits) >= k
    /\ \A k \in 1..Len(req.waits) :
          /\ req.waits[k] = 15 * k
          /\ req.statuses[k] \in Transient
    /\ \A k \in 1..req.sent :
          (req.statuses[k] >= 400 /\ req.statuses[k] \notin Transient)
             => (k = req.sent /\ req.outcome = "raise" /\ Len(req.waits) = k - 1)

C4_Witness ==
    /\ req.sent = 5
    /\ req.outcome = "raise"
    /\ req.waits = <<15, 30, 45, 60>>

(***************************************************************************)
(* Claims about the ledger.                                                *)
(***************************************************************************)
\* the records of the append_ledger calls made on path p, in call order
RECURSIVE CallsOn(_, _)
CallsOn(log, p) ==
    IF log = <<>>
    THEN <<>>
    ELSE IF Head(log).path = p
         THEN <<Head(log).rec>> \o CallsOn(Tail(log), p)
         ELSE CallsOn(Tail(log), p)

\* C8: after append_ledger(path, record), load_skip_cids over that file holds
\* the record's external id (read for records whose cid is a product code, the
\* skip set holding trimmed ids).
C8_LedgerRoundTrip ==
    \A k \in 1..Len(ledLog) :
        ProperId(ledLog[k].rec.cid)
           => ledLog[k].rec.cid \in LoadSkipCids(disk, {ledLog[k].path}, "cid")

\* C9: after n >= 1 append_ledger calls on a path that did not exist before, the
\* file is one header row and then the n records' rows in call order, each in
\* the fixed column order, fields outside it ignored.
C9_HeaderThenRowsInOrder ==
    \A p \in LedgerPaths :
        LET recs == CallsOn(ledLog, p) IN
        recs # <<>>
           => /\ p \in DOMAIN disk
              /\ disk[p] = <<LedgerFields>>
                            \o [k \in 1..Len(recs) |-> RowOf(recs[k], LedgerFields)]

(***************************************************************************)
(* Claims about run_pipeline.                                              *)
(***************************************************************************)
LaterStages == {"mirror", "build", "csv_row", "publish", "ledger"}

\* C5: for the item just handled, if it was in the skip set or failed the
\* filters, no later stage ran for it: no image mirroring, no content build,
\* no CSV row, no publish call, no ledger row.
C5_SkippedRunsNoLaterStage ==
    item.verdict \in {"skipped", "filtered"} => item.stages \cap LaterStages = {}

\* the ids of a set of cid cells as the skip check reads them
Trimmed(cells) == {Strip(c) : c \in cells}

\* two CSV-mode runs of the command have ended, the outputs scan on
TwoCsvRuns == Len(hist) >= 2 /\ ~cfg.wp /\ cfg.autoSkip

\* C6 as stated: after two consecutive CSV-mode runs on the same source, the
\* second with the outputs scan over the first run's directory, the second run
\* kept no record whose id is in the first run's CSV.
C6_SecondRunKeepsNothingExported ==
    TwoCsvRuns => hist[2].kept \cap hist[1].csv = {}

\* C6: after two consecutive CSV-mode runs on the same source, the second with
\* the outputs scan over the first run's directory, the first run's outfile
\* being named *.csv, the second run kept no record whose id, non-empty once
\* trimmed, is in the first run's CSV.
C6_SecondRunKeepsNothingExportedCsvName ==
    (TwoCsvRuns /\ hist[1].outfile.ext = "csv")
       => \A e \in hist[2].kept :
             Strip(e) # <<>> => Strip(e) \notin Trimmed(hist[1].csv)

C6_Witness ==
    /\ TwoCsvRuns
    /\ Len(hist) = 2
    /\ hist[1].outfile.ext = "csv"
    /\ <<"X">> \in hist[1].csv
    /\ hist[2].kept = {}
    /\ item.verdict = "skipped"
    /\ run.pc = "done"

\* C7: over any number of successive runs of the same command (outputs scan
\* on, same outfile, same source), an id kept by one run is kept by no later
\* run (read for CSV-mode runs, an outfile named *.csv and ids that are product
\* codes; any wider reading fails all the more).
C7_NeverKeptTwice ==
    (~cfg.wp /\ cfg.autoSkip /\ cfg.outfile.ext = "csv")
       => \A j \in 1..Len(hist), k \in 1..Len(hist) :
             j < k => \A e \in hist[j].kept : ProperId(e) => e \notin hist[k].kept

\* the position of the timestamp column in the ledger
PostedAtCol == CHOOSE k \in 1..Len(LedgerFields) : LedgerFields[k] = "posted_at"

\* C10: every row the run wrote to the ledger has a non-empty timestamp cell.
C10_LedgerRowsCarryTimestamp ==
    (cfg.ledger # NoPath /\ cfg.ledger \in DOMAIN disk)
       => \A k \in 2..Len(disk[cfg.ledger]) :
             disk[cfg.ledger][k][PostedAtCol] # <<>>

(***************************************************************************)
(* Claims about apply_filters.                                             *)
(***************************************************************************)
\* the rule of the filter, field by field
KeptByRule(r, a) ==
    \A f \in FilterFields :
       /\ a[IncludeOf(f)] # <<>>
             => \E k \in 1..Len(a[IncludeOf(f)]) : ReSearch(a[IncludeOf(f)][k], r[f])
       /\ a[ExcludeOf(f)] # <<>>
             => \A k \in 1..Len(a[ExcludeOf(f)]) : ~ReSearch(a[ExcludeOf(f)][k], r[f])

\* C11: apply_filters returns exactly the rows that, for each of maker,
\* actress, genre, title and cid, match some pattern of the field's include
\* list when it is non-empty and no pattern of its exclude list when it is
\* non-empty, in input order.
C11_KeepsExactlyTheMatching ==
    flt.pc = "done"
       => flt.out = SelectSeq(flt.rows, LAMBDA r : KeptByRule(r, flt.args))

C11_Witness ==
    /\ flt.pc = "done"
    /\ Len(flt.rows) = 2
    /\ flt.out = <<flt.rows[2]>>
    /\ \E n \in IncludeArgs : flt.args[n] # <<>>
    /\ \E n \in ExcludeArgs : flt.args[n] # <<>>

\* the step appends one pattern to option n
Adds(n) == Len(flt'.args[n]) = Len(flt.args[n]) + 1

\* C12 as stated: a pattern added to an exclude list never makes a failing
\* record pass, and a pattern added to an include list, empty or not, never
\* makes a passing record fail.
C12_FilterMonotone ==
    [][/\ \A n \in ExcludeArgs :
             Adds(n) => \A r \in FilterRecs :
                           Passes(r, flt'.args) => Passes(r, flt.args)
       /\ \A n \in IncludeArgs :
             Adds(n) => \A r \in FilterRecs :
                           Passes(r, flt.args) => Passes(r, flt'.args)]_vars

\* C12: a pattern added to an exclude list never makes a failing record pass,
\* and a pattern added to an include list that already holds a pattern never
\* makes a passing record fail.
C12_FilterMonotoneNonEmptyInclude ==
    [][/\ \A n \in ExcludeArgs :
             Adds(n) => \A r \in FilterRecs :
                           Passes(r, flt'.args) => Passes(r, flt.args)
       /\ \A n \in IncludeArgs :
             (Adds(n) /\ flt.args[n] # <<>>)
                => \A r \in FilterRecs :
                      Passes(r, flt.args) => Passes(r, flt'.args)]_vars

\* an include list got a second pattern that a passing record does not match
C12_Witness ==
    \E n \in IncludeArgs, f \in FilterFields, r \in FilterRecs :
       /\ n = IncludeOf(f)
       /\ Len(flt.args[n]) = 2
       /\ ~ReSearch(flt.args[n][2], r[f])
       /\ Passes(r, flt.args)

(***************************************************************************)
(* Claims about the limits and the error handling of run_pipeline.         *)
(***************************************************************************)
\* C13: with a new-items target N > 0, the number of new items a run has
\* counted (and sent to its sink) never exceeds N.
C13_NewItemsWithinTarget ==
    cfg.targetNew > 0 => run.newCount <= cfg.targetNew

\* C14: the fetched count of a run never exceeds args.max, whatever the page
\* size and the source: no more than args.max items are fetched and processed.
C14_FetchedWithinMax ==
    run.got <= cfg.max

\* C15: when the publish target rejects a record with a non-retryable error,
\* in the term ensure or in create_or_update_post, the run goes on: it is not
\* ended by the error.
C15_RejectedRecordDoesNotEndRun ==
    item.cause \in {"terms", "http_error"} => run.pc # "crashed"

\* C16: a record that reached the sink (a CSV row or a post) has a non-empty
\* content body, whatever the template rendering and the generator did.
C16_SinkContentNonEmpty ==
    item.verdict \in {"kept", "posted"} => item.content # <<>>

(***************************************************************************)
(* Claims about the image mirror.                                          *)
(***************************************************************************)
\* the _mirror_one call found a cache entry on the expected host / on another
OnExpectedHost(c) ==
    c.entry # NoDest /\ LowerSeq(c.entry.host) = LowerSeq(c.expected)
OnOtherHost(c) ==
    c.entry # NoDest /\ LowerSeq(c.entry.host) # LowerSeq(c.expected)

ServedFromCache(c) == ~c.downloaded /\ ~c.uploaded /\ c.dest = c.entry

C18_OneUploadPerSite ==
    mir.clean =>
       /\ \A site \in SiteHosts, u \in SrcUrls :
             UploadCount(mir.uploads, site, u) <= 1
       /\ \A k \in 1..Len(mir.calls) :
             mir.calls[k].dest # NoDest => mir.calls[k].dest.host = mir.site

\* the number of the _mirror_one call made for sample k of the record
SampleCall(k) == IF mir.rec.image_large = NoUrl THEN k ELSE k + 1

Failed(c) == c.downloaded /\ ~c.uploaded

\* C19: once mirror_item_images has returned, an image whose download or
\* upload failed has its original URL and no media id, and every other image
\* of the record has the URL of its copy; the call returned with all images
\* of the record in place.
C19_FailedImageKeepsUrl ==
    (mir.pc = "idle" /\ mir.n > 0) =>
       /\ Len(mir.out.sample_images) = Len(mir.rec.sample_images)
       /\ Len(mir.calls) = SampleCall(Len(mir.rec.sample_images))
       /\ \A k \in 1..Len(mir.rec.sample_images) :
             LET c == mir.calls[SampleCall(k)] IN
             /\ Failed(c) => (/\ mir.out.sample_images[k] = mir.rec.sample_images[k]
                              /\ c.mid = 0)
             /\ ~Failed(c) => (/\ mir.out.sample_images[k] = c.dest
                               /\ c.dest # NoDest)
       /\ mir.rec.image_large # NoUrl =>
             LET c == mir.calls[1] IN
             /\ Failed(c) => (/\ mir.out.image_large = mir.rec.image_large
                              /\ mir.out.image_large_id = 0)
             /\ ~Failed(c) => mir.out.image_large = c.dest
       /\ Len(mir.out.sample_image_ids)
             = Cardinality({k \in 1..Len(mir.rec.sample_images) :
                              mir.calls[SampleCall(k)].mid # 0
                              /\ ~Failed(mir.calls[SampleCall(k)])})

C19_Witness ==
    /\ mir.pc = "idle"
    /\ mir.n > 0
    /\ Len(mir.rec.sample_images) = 2
    /\ Failed(mir.calls[SampleCall(1)])
    /\ mir.calls[SampleCall(2)].uploaded
    /\ mir.out.sample_images[1] = mir.rec.sample_images[1]
    /\ mir.out.sample_images[2].host = mir.site

(***************************************************************************)
(* Claims about the image URLs of a record.                                *)
(***************************************************************************)
HasMarker(u) == ContainsAny(LowerSeq(u), PlaceholderMarkers)

\* C20: the row normalize_item returns, for either provider, and the row at
\* every later stage, has an image_large that is empty or free of the
\* placeholder markers, and no entry of its sample_images holds a marker.
C20_NoPlaceholderImages ==
    img.pc \in {"row", "kept"} =>
       /\ img.row.image_large = <<>> \/ ~HasMarker(img.row.image_large)
       /\ \A u \in {SplitBar(img.row.sample_images)[k] :
                       k \in 1..Len(SplitBar(img.row.sample_images))} :
             ~HasMarker(u)

(***************************************************************************)
(* Claims about the trailer fields of a record.                            *)
(***************************************************************************)
\* C21: after normalize_item and sanitize_trailer_fields none of the fields
\* trailer_url, trailer_embed and trailer_poster of the row holds a direct
\* video file link (.mp4 or .m3u8).
C21_NoDirectVideoLink ==
    trl.pc = "clean" =>
       /\ ~IsDirect(trl.row.trailer_url)
       /\ ~IsDirect(trl.row.trailer_embed)
       /\ ~IsDirect(trl.row.trailer_poster)

(***************************************************************************)
(* Claims about the dedupe of the sample images.                           *)
(***************************************************************************)
\* where the identity (the key) of URL u occurs first among the cleaned URLs
FirstOf(uniq, u) ==
    MinOf({j \in 1..Len(uniq) : SampleKey(uniq[j]) = SampleKey(u)})

\* out holds one URL for every identity of uniq, a URL of uniq of the best
\* score of its identity, and of those the one that came first
OnePerIdentity(uniq, out) ==
    /\ \A j \in 1..Len(uniq) :
          Cardinality({p \in 1..Len(out) : SampleKey(out[p]) = SampleKey(uniq[j])}) = 1
    /\ \A p \in 1..Len(out) :
          /\ \E j \in 1..Len(uniq) : uniq[j] = out[p]
          /\ \A j \in 1..Len(uniq) :
                SampleKey(uniq[j]) = SampleKey(out[p]) =>
                   SampleScore(uniq[j]) <= SampleScore(out[p])
          /\ out[p] = uniq[MinOf({j \in 1..Len(uniq) :
                                    /\ SampleKey(uniq[j]) = SampleKey(out[p])
                                    /\ SampleScore(uniq[j]) = SampleScore(out[p])})]

\* C22 as stated: _extract_sample_images returns one URL per image identity,
\* the highest-scoring one, and the URLs in the order in which their
\* identities first occurred in the input.
C22_DedupeKeepsFirstOccurrenceOrder ==
    gal.pc = "done" =>
       LET uniq == CollectUrls(gal.strings) IN
       /\ OnePerIdentity(uniq, gal.out)
       /\ \A p \in 1..Len(gal.out), q \in 1..Len(gal.out) :
             p < q => FirstOf(uniq, gal.out[p]) < FirstOf(uniq, gal.out[q])

\* C22: _extract_sample_images returns one URL per image identity of the
\* cleaned URLs, the first of the highest-scoring ones, and the URLs sorted:
\* those with a large-size hint first, each group in ascending string order.
C22_DedupeSortsLargeFirst ==
    gal.pc = "done" =>
       LET uniq == CollectUrls(gal.strings) IN
       /\ OnePerIdentity(uniq, gal.out)
       /\ \A p \in 1..Len(gal.out), q \in 1..Len(gal.out) :
             p < q =>
                \/ IsLargeHint(gal.out[p]) /\ ~IsLargeHint(gal.out[q])
                \/ /\ IsLargeHint(gal.out[p]) = IsLargeHint(gal.out[q])
                   /\ StrLess(gal.out[p], gal.out[q])

C22_Witness ==
    /\ gal.pc = "done"
    /\ Len(gal.strings) = 3
    /\ Len(gal.out) = 2
    /\ LET uniq == CollectUrls(gal.strings) IN
       /\ Len(uniq) = 3
       /\ SampleKey(uniq[2]) = SampleKey(uniq[3])
       /\ SampleScore(uniq[2]) < SampleScore(uniq[3])
       /\ gal.out = <<uniq[3], uniq[1]>>


\* the names of a call that name a term: stripped and not empty
Named(c) == {Strip(c.names[k]) : k \in 1..Len(c.names)} \ {<<>>}

\* the first position of names that names the term with the id
FirstNaming(c, terms, id) ==
    MinOf({k \in 1..Len(c.names) :
             Strip(c.names[k]) # <<>> /\ TermId(terms, Strip(c.names[k])) = id})

NoSecondTerm ==
    \A tax \in Taxonomies : \A j, k \in 1..Len(tm.terms[tax]) :
        LowerSeq(tm.terms[tax][j]) = LowerSeq(tm.terms[tax][k]) => j = k

\* the call created terms only for its names that had none, behind the terms
\* there were
CreatedOnlyMissing ==
    LET c == tm.call
        now == tm.terms[c.tax]
    IN tm.calls > 0 =>
       /\ Len(now) >= Len(c.before)
       /\ SubSeq(now, 1, Len(c.before)) = c.before
       /\ \A k \in (Len(c.before) + 1)..Len(now) :
             now[k] \in Named(c) /\ TermId(c.before, now[k]) = 0

\* a call that returned holds the id of every name whose term was there, each
\* id once, in the order the names came
ExistingReused ==
    LET c == tm.call
        now == tm.terms[c.tax]
    IN ~c.raised =>
          /\ \A nm \in Named(c) : TermId(c.before, nm) # 0 =>
                \E k \in 1..Len(c.ids) : c.ids[k] = TermId(c.before, nm)
          /\ \A j, k \in 1..Len(c.ids) : c.ids[j] = c.ids[k] => j = k
          /\ \A k \in 1..Len(c.ids) : \E nm \in Named(c) : TermId(now, nm) = c.ids[k]
          /\ \A j, k \in 1..Len(c.ids) :
                j < k => FirstNaming(c, now, c.ids[j]) < FirstNaming(c, now, c.ids[k])

\* only an error status of the remote makes the call raise: term_exists does not
TermExistsIsNoError ==
    tm.call.raised => tm.call.get = "raise" \/ tm.call.post = "invalid"

\* the first call returned an id for each of its names
Complete(c, terms) ==
    /\ ~c.raised
    /\ \A nm \in Named(c) : \E k \in 1..Len(c.ids) : c.ids[k] = TermId(terms, nm)
                                                      /\ c.ids[k] # 0

RepeatCreatesNothing ==
    tm.calls = 2 /\ Complete(tm.first, tm.call.before) =>
        /\ tm.terms[tm.call.tax] = tm.call.before
        /\ ~tm.call.raised => tm.call.ids = tm.first.ids

C24_ContentIsComposition ==
    cnt.pc = "sink" /\ ~cnt.content_builder.none
        /\ (cnt.args.md_template \/ cnt.args.prepend_html # <<>>
            \/ cnt.args.append_html # <<>> \/ cnt.args.hook # "none")
        => cnt.content = Render(cnt.content_builder)

\* C25: both skip-set builders pick the id column of a CSV by the same rule, so
\* for every header the ids read through an explicit path (load_skip_cids with
\* the default column cid) equal the ids read through the directory scan
\* (load_skip_cids_in_dir).
C25_SameIdsBothWays ==
    skp.done = {"path", "dir"} /\ skp.colname = "cid" => skp.ids = skp.in_dir

\* C26: the fetch loop of run_pipeline always terminates: for every source
\* behaviour and every finite max, DONE is eventually reached.
C26_DoneEventuallyReached == <>(ftc.pc = "done")

\* C26, amended: for every source behaviour, every finite max and every target
\* the loop is eventually left: DONE is reached, or an error of the source or
\* of an item that nothing catches ends the run.
C26_LoopEventuallyLeft == <>(ftc.pc \in {"done", "raised"})

\* a run that reached its maximum after more than one page
C26_Witness ==
    /\ ftc.pc = "done" /\ ftc.ended = "max"
    /\ ftc.got >= ftc.max /\ ftc.max > MaxPage
    /\ ftc.last = "sleep"

\* C27: the inter-page delay is applied exactly between two page fetches: no
\* sleep is executed after the last page of a run, whichever stopping
\* condition ends the loop: when the loop has ended, the last thing it did
\* was not a sleep.
C27_NoSleepAfterLastPage ==
    ftc.pc = "done" => ftc.last # "sleep"

\* the step of an item that was published
PublishedStep ==
    /\ run.pc = "items" /\ run'.pc = "items" /\ run'.idx = run.idx + 1
    /\ item'.verdict = "posted"

\* the remote holds a post for the external id of the item at hand
ExistsRemotely ==
    /\ Strip(run.page[run.idx].cid) # <<>>
    /\ \E k \in 1..Len(posts) : posts[k].eid = Strip(run.page[run.idx].cid)

\* C28: with no_update_existing set, a post that already exists on the remote
\* site for a record's external_id is never modified by the run: no update
\* request is sent for it, whatever the outcome of the orchestrator's own
\* existence lookup; a record that is published makes a new post.
C28_ExistingPostNotUpdated ==
    [][cfg.noUpdate /\ PublishedStep /\ ExistsRemotely
          => Len(posts') = Len(posts) + 1]_vars

\* C29: make_aff_url is idempotent: for every base URL u,
\* make_aff_url(make_aff_url(u)) equals make_aff_url(u).
C29_MakeAffUrlIdempotent ==
    aff.pc = "twice" => aff.twice = aff.once

\* a run that was started after a kill and was not killed itself
RunAfterKill == prn.starts >= 2 /\ prn.kills >= 1 /\ ~prn.killed

\* the run's exit was reported
ExitReported == prn.pump = "none" /\ prn.exits = prn.starts

\* C30: ProcessRunner can be reused after a kill: a later run starts a child
\* whose every output line is delivered to on_line and whose exit is
\* eventually reported through on_exit; the stop flag set by kill does not
\* affect a later run, and the reader thread never blocks forever.
C30_ReusableAfterKill ==
    /\ [](RunAfterKill /\ ExitReported => prn.delivered = prn.lines)
    /\ (RunAfterKill /\ prn.pump # "none" ~> prn.pump = "none" \/ prn.killed)

====
